---- MODULE Spec2Model ----
(***************************************************************************)
(* A model of salt/modules/git.py: the command runner _git_run, the path   *)
(* validator _check_abs, the option formatter _format_opts, the auth URL   *)
(* rewriter and the public operations built on them.                       *)
(*                                                                         *)
(* Python values are records [t, v]: t is the Python type, v the payload.  *)
(* A Python string is the sequence of its characters.                      *)
(***************************************************************************)
EXTENDS Integers, Sequences, FiniteSets, TLC

\* ------------------------------------------------------------------ bounds
MaxIds == 3
MaxStrLen == 4
MaxListLen == 3

\* ----------------------------------------------------------- Python values
None == [t |-> "none", v |-> <<>>]
PyStr(s) == [t |-> "str", v |-> s]
PyInt(n) == [t |-> "int", v |-> n]
PyBool(b) == [t |-> "bool", v |-> b]
PyList(l) == [t |-> "list", v |-> l]

\* isinstance(x, six.string_types)
IsStr(x) == x.t = "str"

\* Python truth value of x
Truthy(x) ==
    CASE x.t = "none" -> FALSE
      [] x.t = "bool" -> x.v
      [] x.t = "int"  -> x.v # 0
      [] OTHER        -> Len(x.v) > 0

Digit(n) == <<"0", "1", "2", "3", "4", "5", "6", "7", "8", "9">>[n + 1]

\* str(x) for the scalar values of the model
str(x) ==
    CASE x.t = "str"  -> x
      [] x.t = "none" -> PyStr(<<"N", "o", "n", "e">>)
      [] x.t = "bool" -> IF x.v THEN PyStr(<<"T", "r", "u", "e">>)
                                ELSE PyStr(<<"F", "a", "l", "s", "e">>)
      [] x.t = "int"  -> PyStr(<<Digit(x.v)>>)

\* the outcome of a pure helper: a value, or the exception it raises
Ok(val) == [ok |-> TRUE, v |-> val, exc |-> "none"]
Err(e) == [ok |-> FALSE, v |-> None, exc |-> e]

SEP == PyStr(<<"-", "-">>)

\* -------------------------------------------------------------- shlex.split
\* shlex.split(s): the POSIX-mode tokenizer with whitespace_split on and no
\* comment characters.  st is the tokenizer state: " " (between tokens),
\* "a" (in a word), a quote character, or "\\" (after an escape, with esc the
\* state to return to).
RECURSIVE shlex_read(_, _, _, _, _, _, _)
shlex_read(s, i, st, esc, tok, quoted, out) ==
    LET emit == IF tok # <<>> \/ quoted THEN Append(out, PyStr(tok)) ELSE out
    IN
    IF i > Len(s) THEN
        IF st \in {"'", "\""} THEN Err("ValueError")
        ELSE IF st = "\\" THEN Err("ValueError")
        ELSE Ok(PyList(IF st = "a" THEN emit ELSE out))
    ELSE
    LET c == s[i] IN
    CASE st = " " ->
            IF c = " " THEN shlex_read(s, i + 1, " ", esc, <<>>, FALSE, out)
            ELSE IF c = "\\" THEN shlex_read(s, i + 1, "\\", "a", <<>>, FALSE, out)
            ELSE IF c \in {"'", "\""} THEN shlex_read(s, i + 1, c, esc, <<>>, TRUE, out)
            ELSE shlex_read(s, i + 1, "a", esc, <<c>>, FALSE, out)
      [] st \in {"'", "\""} ->
            IF c = st THEN shlex_read(s, i + 1, "a", esc, tok, TRUE, out)
            ELSE IF c = "\\" /\ st = "\"" THEN shlex_read(s, i + 1, "\\", st, tok, TRUE, out)
            ELSE shlex_read(s, i + 1, st, esc, Append(tok, c), TRUE, out)
      [] st = "\\" ->
            LET kept == IF esc \in {"'", "\""} /\ c # "\\" /\ c # esc
                        THEN tok \o <<"\\", c>> ELSE Append(tok, c)
            IN shlex_read(s, i + 1, esc, esc, kept, quoted, out)
      [] st = "a" ->
            IF c = " " THEN shlex_read(s, i + 1, " ", esc, <<>>, FALSE, emit)
            ELSE IF c \in {"'", "\""} THEN shlex_read(s, i + 1, c, esc, tok, TRUE, out)
            ELSE IF c = "\\" THEN shlex_read(s, i + 1, "\\", "a", tok, quoted, out)
            ELSE shlex_read(s, i + 1, "a", esc, Append(tok, c), quoted, out)

shlex_split(s) == shlex_read(s, 1, " ", "a", <<>>, FALSE, <<>>)

\* ------------------------------------------------------------ _format_opts
\* any(x for x in opts if not isinstance(x, six.string_types)): the truth
\* value of the non-string elements, not their presence
AnyNonString(l) == \E k \in 1..Len(l) : ~IsStr(l[k]) /\ Truthy(l[k])

StrEach(l) == [k \in 1..Len(l) |-> str(l[k])]

_format_opts(opts) ==
    IF opts.t = "none" THEN Ok(PyList(<<>>))
    ELSE IF opts.t = "list" THEN
        IF AnyNonString(opts.v) THEN Ok(PyList(StrEach(opts.v)))
        ELSE IF Len(opts.v) = 0 THEN Err("IndexError")
        ELSE IF opts.v[Len(opts.v)] = SEP
             THEN Ok(PyList(SubSeq(opts.v, 1, Len(opts.v) - 1)))
        ELSE Ok(opts)
    ELSE IF ~IsStr(opts) THEN Ok(PyList(<<str(opts)>>))
    ELSE shlex_split(opts.v)

\* --------------------------------------------------------------- the state
VARIABLES
    call,         \* the top-level call being made: its function and arguments
    stack,        \* the Python call stack: a sequence of frames, innermost last
    ret,          \* the value the last completed call returned
    outcome,      \* how the top-level call ended: [kind, v, exc]
    files,        \* the temporary files that exist on disk
    next_file,    \* the name utils.mkstemp() hands out next
    running,      \* the number of child processes running
    executions,   \* the calls made to __salt__['cmd.run_all'], in order
    fs_removed,   \* the paths salt.utils.rm_rf has removed
    is_windows,   \* the value of utils.is_windows() on this host
    host_globals, \* the names among utils, log that the host binds in the module
    opts,         \* the option value given to the formatter
    fmt,          \* _format_opts(opts), once computed
    fmt_again,    \* _format_opts applied to the output fmt, once computed
    fmt_short,    \* _format_opts(opts[:-1]), once computed
    status_output, \* a standard output of `git status -z --porcelain`
    status_ret,   \* what status() makes of status_output, once computed
    context,      \* __context__: the dict the host keeps for the process
    returns       \* how the earlier version() calls of the process ended

machineVars == <<call, stack, ret, outcome, files, next_file, running, executions,
                 fs_removed>>
hostVars == <<is_windows, host_globals>>
fmtVars == <<opts, fmt, fmt_again, fmt_short>>
statusVars == <<status_output, status_ret>>
versionVars == <<context, returns>>
pureVars == <<fmtVars, statusVars, versionVars>>
vars == <<call, stack, ret, outcome, files, next_file, running, executions,
          fs_removed,
          is_windows, host_globals, opts, fmt, fmt_again, fmt_short,
          status_output, status_ret, context, returns>>

\* ------------------------------------------------------------ text helpers
RECURSIVE Join(_, _)
\* sep.join(parts) for a sequence of strings (sequences of characters)
Join(sep, parts) ==
    IF Len(parts) = 0 THEN <<>>
    ELSE IF Len(parts) = 1 THEN parts[1]
    ELSE parts[1] \o sep \o Join(sep, Tail(parts))

RECURSIVE EscapeFor(_, _)
\* the body of repr(s) between quotes q: q and the backslash are escaped
EscapeFor(q, s) ==
    IF s = <<>> THEN <<>>
    ELSE (IF Head(s) \in {q, "\\"} THEN <<"\\", Head(s)>> ELSE <<Head(s)>>)
         \o EscapeFor(q, Tail(s))

HasChar(s, c) == \E k \in 1..Len(s) : s[k] = c

\* repr(s) of a Python string: double quotes when s holds ' and no "
ReprStr(s) ==
    LET q == IF HasChar(s, "'") /\ ~HasChar(s, "\"") THEN "\"" ELSE "'"
    IN <<q>> \o EscapeFor(q, s) \o <<q>>

\* '{0}'.format(command) for a list of strings: the list's repr
FormatCommand(command) ==
    <<"[">> \o Join(<<",", " ">>, [k \in 1..Len(command) |-> ReprStr(command[k].v)])
    \o <<"]">>

\* s.find(c) + 1: the first position of character c in s, or 0
IndexOf(s, c) ==
    IF HasChar(s, c) THEN CHOOSE k \in 1..Len(s) : s[k] = c /\ \A j \in 1..(k - 1) : s[j] # c
    ELSE 0

\* s.rfind(c) + 1: the last position of character c in s, or 0
LastIndexOf(s, c) ==
    IF HasChar(s, c)
    THEN CHOOSE k \in 1..Len(s) : s[k] = c /\ \A j \in (k + 1)..Len(s) : s[j] # c
    ELSE 0

\* the first position at or after k of a character of set cs in s, or Len(s)+1
FirstOf(s, cs, k) ==
    IF \E j \in k..Len(s) : s[j] \in cs
    THEN CHOOSE j \in k..Len(s) : s[j] \in cs /\ \A h \in k..(j - 1) : s[h] \notin cs
    ELSE Len(s) + 1

From(s, k) == SubSeq(s, k, Len(s))
Upto(s, k) == SubSeq(s, 1, k)

Uppers == <<"A", "B", "C", "D", "E", "F", "G", "H", "I", "J", "K", "L", "M", "N", "O", "P", "Q", "R", "S", "T", "U", "V", "W", "X", "Y", "Z">>
Lowers == <<"a", "b", "c", "d", "e", "f", "g", "h", "i", "j", "k", "l", "m", "n", "o", "p", "q", "r", "s", "t", "u", "v", "w", "x", "y", "z">>
LowerChar(c) ==
    IF \E k \in 1..26 : Uppers[k] = c
    THEN Lowers[CHOOSE k \in 1..26 : Uppers[k] = c] ELSE c
\* s.lower()
Lower(s) == [k \in 1..Len(s) |-> LowerChar(s[k])]

\* os.path.isabs(path) for a string path
isabs(path) == Len(path) > 0 /\ path[1] = "/"

\* os.path.basename(path): what follows the last slash
basename(path) == From(path, LastIndexOf(path, "/") + 1)

\* ------------------------------------------------------- str.split and kin
WS == {" ", "\t", "\n", "\r"}

RECURSIVE LStrip(_, _)
\* s.lstrip(cs)
LStrip(s, cs) == IF s # <<>> /\ Head(s) \in cs THEN LStrip(Tail(s), cs) ELSE s

RECURSIVE RStrip(_, _)
\* s.rstrip(cs)
RStrip(s, cs) ==
    IF s # <<>> /\ s[Len(s)] \in cs THEN RStrip(Upto(s, Len(s) - 1), cs) ELSE s

\* s.split(None, 1): at most two pieces, split at the first run of whitespace
SplitFirst(s) ==
    LET t == LStrip(s, WS)
        e == FirstOf(t, WS, 1)
        rest == LStrip(From(t, e), WS)
    IN IF t = <<>> THEN <<>>
       ELSE IF rest = <<>> THEN <<Upto(t, e - 1)>>
       ELSE <<Upto(t, e - 1), rest>>

\* the last position of a whitespace character in s, or 0
LastWS(s) ==
    IF \E k \in 1..Len(s) : s[k] \in WS
    THEN CHOOSE k \in 1..Len(s) : s[k] \in WS /\ \A j \in (k + 1)..Len(s) : s[j] \notin WS
    ELSE 0

\* s.rsplit(None, 1): at most two pieces, split at the last run of whitespace
RSplitLast(s) ==
    LET t == RStrip(s, WS)
        b == LastWS(t)
        head == RStrip(Upto(t, b), WS)
    IN IF t = <<>> THEN <<>>
       ELSE IF head = <<>> THEN <<From(t, b + 1)>>
       ELSE <<head, From(t, b + 1)>>

RECURSIVE splitlines(_)
\* s.splitlines() for text whose line ends are "\n"
splitlines(s) ==
    IF s = <<>> THEN <<>>
    ELSE LET n == IndexOf(s, "\n") IN
         IF n = 0 THEN <<s>>
         ELSE <<Upto(s, n - 1)>> \o splitlines(From(s, n + 1))

\* ---------------------------------------------------------------- _check_abs
\* _check_abs(*paths): the exception raised for the first path that is not a
\* string or not absolute, or NoExc
RECURSIVE _check_abs(_)
_check_abs(paths) ==
    IF paths = <<>> THEN [type |-> "none", msg |-> <<>>]
    ELSE IF ~IsStr(Head(paths)) \/ ~isabs(Head(paths).v)
         THEN [type |-> "SaltInvocationError",
               msg |-> <<"P", "a", "t", "h", " ", "'">> \o str(Head(paths)).v \o <<"'", " ", "i", "s", " ", "n", "o", "t", " ", "a", "b", "s", "o", "l", "u", "t", "e">>]
         ELSE _check_abs(Tail(paths))

\* ------------------------------------------------------------- URL handling
Digits == {"0", "1", "2", "3", "4", "5", "6", "7", "8", "9"}
Letters == {Uppers[k] : k \in 1..26} \cup {Lowers[k] : k \in 1..26}
scheme_chars == Letters \cup Digits \cup {"+", "-", "."}
uses_params == { <<>>, <<"f", "t", "p">>, <<"h", "d", "l">>, <<"p", "r", "o", "s", "p", "e", "r", "o">>, <<"h", "t", "t", "p">>, <<"i", "m", "a", "p">>, <<"h", "t", "t", "p", "s">>,
                 <<"s", "h", "t", "t", "p">>, <<"r", "t", "s", "p">>, <<"r", "t", "s", "p", "u">>, <<"s", "i", "p">>, <<"s", "i", "p", "s">>, <<"m", "m", "s">>, <<"s", "f", "t", "p">>,
                 <<"t", "e", "l">> }
uses_netloc == { <<>>, <<"f", "t", "p">>, <<"h", "t", "t", "p">>, <<"g", "o", "p", "h", "e", "r">>, <<"n", "n", "t", "p">>, <<"t", "e", "l", "n", "e", "t">>, <<"i", "m", "a", "p">>,
                 <<"w", "a", "i", "s">>, <<"f", "i", "l", "e">>, <<"m", "m", "s">>, <<"h", "t", "t", "p", "s">>, <<"s", "h", "t", "t", "p">>, <<"s", "n", "e", "w", "s">>,
                 <<"p", "r", "o", "s", "p", "e", "r", "o">>, <<"r", "t", "s", "p">>, <<"r", "t", "s", "p", "u">>, <<"r", "s", "y", "n", "c">>, <<"s", "v", "n">>, <<"s", "v", "n", "+", "s", "s", "h">>,
                 <<"s", "f", "t", "p">>, <<"n", "f", "s">>, <<"g", "i", "t">>, <<"g", "i", "t", "+", "s", "s", "h">>, <<"w", "s">>, <<"w", "s", "s">> }

\* urlsplit, last step: the query is split off at the first `?` (position q)
SplitQuery(scheme, netloc, url, fragment, q) ==
    [scheme |-> scheme, netloc |-> netloc,
     path |-> IF q > 0 THEN Upto(url, q - 1) ELSE url,
     query |-> IF q > 0 THEN From(url, q + 1) ELSE <<>>,
     fragment |-> fragment]

\* urlsplit: the fragment is split off at the first `#` (position h)
SplitFragment(scheme, netloc, url, h) ==
    SplitQuery(scheme, netloc,
               IF h > 0 THEN Upto(url, h - 1) ELSE url,
               IF h > 0 THEN From(url, h + 1) ELSE <<>>,
               IndexOf(IF h > 0 THEN Upto(url, h - 1) ELSE url, "?"))

\* urlsplit: after `//` the netloc runs up to the first of `/?#` (position delim)
SplitNetloc(scheme, url, hasNetloc, delim) ==
    SplitFragment(scheme,
                  IF hasNetloc THEN SubSeq(url, 3, delim - 1) ELSE <<>>,
                  IF hasNetloc THEN From(url, delim) ELSE url,
                  IndexOf(IF hasNetloc THEN From(url, delim) ELSE url, "#"))

\* urlsplit: what follows the scheme
SplitAfterScheme(scheme, url) ==
    SplitNetloc(scheme, url,
                Len(url) >= 2 /\ url[1] = "/" /\ url[2] = "/",
                FirstOf(url, {"/", "?", "#"}, 3))

\* urlsplit: the text before the first `:` (position i) is a scheme if it
\* starts with a letter and holds only scheme characters
HasScheme(url, i) ==
    /\ i > 1
    /\ url[1] \in Letters
    /\ \A k \in 1..(i - 1) : url[k] \in scheme_chars

\* urlsplit: the scheme, lowercased, is split off at the first `:` (position i)
SplitScheme(url, i, hasScheme) ==
    SplitAfterScheme(IF hasScheme THEN Lower(Upto(url, i - 1)) ELSE <<>>,
                     IF hasScheme THEN From(url, i + 1) ELSE url)

\* urlsplit(url): scheme, netloc, path, query and fragment
urlsplit(url) == SplitScheme(url, IndexOf(url, ":"), HasScheme(url, IndexOf(url, ":")))

\* _splitparams(url): the position of the `;` that starts the parameters of
\* the last path segment, or 0
ParamsAt(url) ==
    IF HasChar(From(url, LastIndexOf(url, "/") + 1), ";")
    THEN LastIndexOf(url, "/") + IndexOf(From(url, LastIndexOf(url, "/") + 1), ";")
    ELSE 0

\* urlparse: the parameters are split off the path at position at
SplitParams(sp, at) ==
    [scheme |-> sp.scheme, netloc |-> sp.netloc,
     path |-> IF at > 0 THEN Upto(sp.path, at - 1) ELSE sp.path,
     params |-> IF at > 0 THEN From(sp.path, at + 1) ELSE <<>>,
     query |-> sp.query, fragment |-> sp.fragment]

\* urlparse: the split url with its parameters split off
ParseSplit(sp) ==
    SplitParams(sp, IF sp.scheme \in uses_params /\ HasChar(sp.path, ";")
                    THEN ParamsAt(sp.path) ELSE 0)

\* urlparse(url): urlsplit, with the parameters split off the path
_urlparse(url) == ParseSplit(urlsplit(url))

\* urlunsplit, last step: the fragment is appended
UnsplitFragment(t, url) ==
    IF t.fragment # <<>> THEN url \o <<"#">> \o t.fragment ELSE url

\* urlunsplit: the query is appended
UnsplitQuery(t, url) ==
    UnsplitFragment(t, IF t.query # <<>> THEN url \o <<"?">> \o t.query ELSE url)

\* urlunsplit: the scheme is put in front
UnsplitScheme(t, url) ==
    UnsplitQuery(t, IF t.scheme # <<>> THEN t.scheme \o <<":">> \o url ELSE url)

\* urlunsplit: `//` and the netloc are put in front of the path
UnsplitNetloc(t, url) ==
    UnsplitScheme(t,
        IF \/ t.netloc # <<>>
           \/ t.scheme # <<>> /\ t.scheme \in uses_netloc
              /\ ~(Len(url) >= 2 /\ url[1] = "/" /\ url[2] = "/")
        THEN <<"/", "/">> \o t.netloc
             \o (IF url # <<>> /\ url[1] # "/" THEN <<"/">> ELSE <<>>) \o url
        ELSE url)

\* urlunparse(t): the URL text of the six components
_urlunparse(t) ==
    UnsplitNetloc(t, IF t.params # <<>> THEN t.path \o <<";">> \o t.params
                     ELSE t.path)

\* AddAuth without the test of the scheme
AddAuth_any_scheme(urltuple, https_user, https_pass) ==
    Ok(PyStr(_urlunparse(
        [urltuple EXCEPT !.netloc = str(https_user).v \o <<":">>
                                    \o str(https_pass).v \o <<"@">>
                                    \o urltuple.netloc])))

\* AddAuth leaving the authority as it was
AddAuth_no_credentials(urltuple, https_user, https_pass) ==
    IF urltuple.scheme = <<"h", "t", "t", "p", "s">>
    THEN Ok(PyStr(_urlunparse(urltuple)))
    ELSE Err("SaltInvocationError")

\* lines 145-150 of _add_http_basic_auth on the parsed url
AddAuth(urltuple, https_user, https_pass) ==
    IF urltuple.scheme = <<"h", "t", "t", "p", "s">>
    THEN Ok(PyStr(_urlunparse(
             [urltuple EXCEPT !.netloc = str(https_user).v \o <<":">>
                                         \o str(https_pass).v \o <<"@">>
                                         \o urltuple.netloc])))
    ELSE Err("SaltInvocationError")

\* _add_http_basic_auth(url, https_user, https_pass)
_add_http_basic_auth(url, https_user, https_pass) ==
    IF https_user = None /\ https_pass = None THEN Ok(url)
    ELSE AddAuth(_urlparse(url.v), https_user, https_pass)

\* ------------------------------------------------------------ the machine
\* module globals the code reads and no statement of the module binds: lines
\* 8-16 import salt.utils (binding `salt`) and no logging; a read of one of them
\* raises NameError unless the host that loads the module bound it
FreeNames == {"utils", "log"}

NoExc == [type |-> "none", msg |-> <<>>]
Exc(type, msg) == [type |-> type, msg |-> msg]
NoOutcome == [kind |-> "none", v |-> None, exc |-> NoExc]
NoCall == [fn |-> "none"]

Top == stack[Len(stack)]
Pop(stk) == SubSeq(stk, 1, Len(stk) - 1)
SetTop(f) == [stack EXCEPT ![Len(stack)] = f]
At(fn, pc) == Len(stack) > 0 /\ Top.fn = fn /\ Top.pc = pc

\* the pc at which frame f catches exception e, or "none"
Handler(f, e) ==
    IF f.fn = "is_worktree" /\ f.pc = "l2078" /\ e.type = "CommandExecutionError"
    THEN "l2080"
    ELSE IF f.fn = "version" /\ f.pc = "l2025" /\ e.type = "CommandExecutionError"
    THEN "l2027"
    ELSE "none"

RECURSIVE Unwind(_, _)
\* the stack after e propagates out of the frames of stk that do not catch it
Unwind(stk, e) ==
    IF stk = <<>> THEN <<>>
    ELSE LET f == stk[Len(stk)] IN
         IF Handler(f, e) # "none"
         THEN [stk EXCEPT ![Len(stk)] = [f EXCEPT !.pc = Handler(f, e)]]
         ELSE Unwind(Pop(stk), e)

\* `raise e` in the innermost frame
Raise(e) ==
    /\ stack' = Unwind(Pop(stack), e)
    /\ outcome' = IF stack' = <<>>
                  THEN [kind |-> "raise", v |-> None, exc |-> e] ELSE outcome
    /\ UNCHANGED ret

\* `return val` in the innermost frame
Return(val) ==
    /\ stack' = Pop(stack)
    /\ ret' = val
    /\ outcome' = IF Len(stack) = 1
                  THEN [kind |-> "return", v |-> val, exc |-> NoExc] ELSE outcome

Idle == stack = <<>> /\ outcome.kind = "none"

\* ---------------------------------------------- the process execution service
Retcodes == {0, 1}
Stderrs == {<<>>, <<"e", "1">>, <<"e", "2">>, <<"e", "3">>}
Stdouts == {<<"o">>}

\* a string literal of the source
Lit(chars) == PyStr(chars)
GIT == Lit(<<"g", "i", "t">>)
AbsPath == Lit(<<"/", "r">>)
RelPath == Lit(<<"r">>)
\* line 1375: the listing command of remotes()
RemoteVerbose == <<GIT, Lit(<<"r", "e", "m", "o", "t", "e">>), Lit(<<"-", "-", "v", "e", "r", "b", "o", "s", "e">>)>>
\* what `git remote --verbose` can print: nothing, a fetch and a push line, a
\* line with an unknown action, a line of one word, a line with an unknown
\* action before a fetch line
RemoteListings == { <<>>, <<"o", " ", "u", " ", "(", "f", "e", "t", "c", "h", ")", "\n", "o", " ", "v", " ", "(", "p", "u", "s", "h", ")">>, <<"o", " ", "u", " ", "(", "x", ")">>, <<"o">>,
                    <<"o", " ", "u", " ", "(", "x", ")", "\n", "o", " ", "u", " ", "(", "f", "e", "t", "c", "h", ")">> }

\* the character NUL
NUL == "\\0"
\* line 1060: the command of status()
StatusCommand == <<GIT, Lit(<<"s", "t", "a", "t", "u", "s">>), Lit(<<"-", "z">>), Lit(<<"-", "-", "p", "o", "r", "c", "e", "l", "a", "i", "n">>)>>
\* what `git status -z --porcelain` can print: nothing, entries `XY path NUL`,
\* and the same codes and paths each as a segment of its own
StatusListings ==
    { <<>>,
      <<"M", " ", "f">> \o <<NUL>> \o <<"?", "?", " ", "b">> \o <<NUL>>,
      <<"M">> \o <<NUL>> \o <<"f">> \o <<NUL>> \o <<"?", "?">> \o <<NUL>> \o <<"b">> \o <<NUL>> }
\* line 2025: the command of version()
VersionCommand == <<GIT, Lit(<<"-", "-", "v", "e", "r", "s", "i", "o", "n">>)>>
\* what `git --version` can print: a version, a version with a part that is
\* no number, nothing
VersionListings == { <<"g", "i", "t", " ", "v", "e", "r", "s", "i", "o", "n", " ", "1", ".", "1", "0", "\n">>, <<"g", "i", "t", " ", "v", "e", "r", "s", "i", "o", "n", " ", "2", ".", "a", "\n">>, <<>> }
\* what `git ls-remote` can print: nothing, blank, one line, two lines
LsRemoteListings == { <<>>, <<"\n">>, <<"a", "\t", "r">>, <<"a", "\t", "r", "\n", "b", "\t", "q">> }

\* the standard outputs a command can have
StdoutsOf(command) ==
    IF command = RemoteVerbose THEN RemoteListings
    ELSE IF command = StatusCommand THEN StatusListings
    ELSE IF command = VersionCommand THEN VersionListings
    ELSE IF command[2] = Lit(<<"l", "s", "-", "r", "e", "m", "o", "t", "e">>) THEN LsRemoteListings
    ELSE Stdouts

\* the Invocation Results cmd.run_all can return for a command
ProcResults(command) ==
    [retcode : Retcodes, stdout : StdoutsOf(command), stderr : Stderrs]
NoResult == [retcode |-> -1, stdout |-> <<>>, stderr |-> <<>>]

\* the failure of cmd.run_all itself (bad cwd, unknown runas user)
CmdError == Exc("CommandExecutionError", <<"c", "m", "d">>)

\* one call of __salt__['cmd.run_all'] as the service sees it: its arguments,
\* and once it is over (done) the result it returned or that it raised
Execution(f) ==
    [command |-> f.command, cwd |-> f.cwd, runas |-> f.runas, env |-> f.env,
     python_shell |-> FALSE, ignore_retcode |-> f.ignore_retcode,
     done |-> FALSE, raised |-> FALSE, result |-> NoResult]

\* the log once the running call has returned r
Returned(r) == [executions EXCEPT ![Len(executions)].done = TRUE,
                                  ![Len(executions)].result = r]
\* the log once the running call has raised
Raised == [executions EXCEPT ![Len(executions)].done = TRUE,
                            ![Len(executions)].raised = TRUE]

\* ------------------------------------------------------------------ _git_run
\* the frame of a call _git_run(command, cwd, runas, identity, ignore_retcode)
GitRunFrame(command, cwd, runas, identity, ignore_retcode) ==
    [fn |-> "_git_run", pc |-> "l35", command |-> command, cwd |-> cwd,
     runas |-> runas, identity |-> identity, ignore_retcode |-> ignore_retcode,
     env |-> <<>>, stderrs |-> <<>>, idx |-> 1, tmp_file |-> 0,
     result |-> NoResult, pending |-> NoExc]

\* git_run_enter taking `identity is not None` for `if identity:`
git_run_enter_not_none ==
    /\ At("_git_run", "l35")
    /\ LET f == Top IN
       stack' = SetTop(
           IF f.identity # None
           THEN [f EXCEPT !.pc = "l47", !.stderrs = <<>>,
                          !.identity = IF f.identity.t = "list" THEN f.identity
                                       ELSE PyList(<<f.identity>>)]
           ELSE [f EXCEPT !.pc = "l85"])
    /\ UNCHANGED <<call, ret, outcome, files, next_file, running, executions>>
    /\ UNCHANGED <<fs_removed, hostVars, pureVars>>

\* lines 35-46: env = {}; `if identity:`; a bare value becomes a one-element list
git_run_enter ==
    /\ At("_git_run", "l35")
    /\ LET f == Top IN
       stack' = SetTop(
           IF Truthy(f.identity)
           THEN [f EXCEPT !.pc = "l47", !.stderrs = <<>>,
                          !.identity = IF f.identity.t = "list" THEN f.identity
                                       ELSE PyList(<<f.identity>>)]
           ELSE [f EXCEPT !.pc = "l85"])
    /\ UNCHANGED <<call, ret, outcome, files, next_file, running, executions>>
    /\ UNCHANGED <<fs_removed, hostVars, pureVars>>

\* lines 47-50: the next id_file of the loop, or the loop's end
git_run_for ==
    /\ At("_git_run", "l47")
    /\ LET f == Top IN
       stack' = SetTop(
           IF f.idx <= Len(f.identity.v)
           THEN [f EXCEPT !.pc = "l54", !.idx = f.idx + 1,
                          !.env = ("GIT_IDENTITY" :> f.identity.v[f.idx])]
           ELSE [f EXCEPT !.pc = "l82"])
    /\ UNCHANGED <<call, ret, outcome, files, next_file, running, executions>>
    /\ UNCHANGED <<fs_removed, hostVars, pureVars>>

\* line 54: `utils.is_windows()`; the module imports salt.utils and binds no
\* name `utils`, so the lookup raises NameError unless the host bound it
git_run_is_windows ==
    /\ At("_git_run", "l54")
    /\ IF "utils" \notin host_globals
       THEN Raise(Exc("NameError", <<"u", "t", "i", "l", "s">>))
       ELSE /\ stack' = SetTop([Top EXCEPT !.pc = IF is_windows THEN "l64" ELSE "l57"])
            /\ UNCHANGED <<ret, outcome>>
    /\ UNCHANGED <<call, files, next_file, running, executions>>
    /\ UNCHANGED <<fs_removed, hostVars, pureVars>>

\* lines 55-57: tmp_file = utils.mkstemp() creates the file, or fails
git_run_mkstemp ==
    /\ At("_git_run", "l57")
    /\ \/ /\ stack' = SetTop([Top EXCEPT !.pc = "l58", !.tmp_file = next_file])
          /\ files' = files \cup {next_file}
          /\ next_file' = next_file + 1
          /\ UNCHANGED <<ret, outcome>>
       \/ /\ Raise(Exc("OSError", <<"m", "k", "s", "t", "e", "m", "p">>))
          /\ UNCHANGED <<files, next_file>>
    /\ UNCHANGED <<call, running, executions>>
    /\ UNCHANGED <<fs_removed, hostVars, pureVars>>

\* line 58: utils.files.copyfile(ssh_id_wrapper, tmp_file)
git_run_copyfile ==
    /\ At("_git_run", "l58")
    /\ \/ /\ stack' = SetTop([Top EXCEPT !.pc = "l59"])
          /\ UNCHANGED <<ret, outcome>>
       \/ Raise(Exc("IOError", <<"c", "o", "p", "y">>))
    /\ UNCHANGED <<call, files, next_file, running, executions>>
    /\ UNCHANGED <<fs_removed, hostVars, pureVars>>

\* line 59: os.chmod(tmp_file, 0o500)
git_run_chmod ==
    /\ At("_git_run", "l59")
    /\ \/ /\ stack' = SetTop([Top EXCEPT !.pc = "l60"])
          /\ UNCHANGED <<ret, outcome>>
       \/ Raise(Exc("OSError", <<"c", "h", "m", "o", "d">>))
    /\ UNCHANGED <<call, files, next_file, running, executions>>
    /\ UNCHANGED <<fs_removed, hostVars, pureVars>>

\* lines 60-61: os.chown(tmp_file, file.user_to_uid(runas), -1), then
\* env['GIT_SSH'] = tmp_file
git_run_chown ==
    /\ At("_git_run", "l60")
    /\ \/ /\ stack' = SetTop([Top EXCEPT !.pc = "l64",
                                         !.env = Top.env @@ ("GIT_SSH" :> Top.tmp_file)])
          /\ UNCHANGED <<ret, outcome>>
       \/ Raise(Exc("OSError", <<"c", "h", "o", "w", "n">>))
    /\ UNCHANGED <<call, files, next_file, running, executions>>
    /\ UNCHANGED <<fs_removed, hostVars, pureVars>>

\* lines 64-70 and 85-91: cmd.run_all is called and the child starts
git_run_exec ==
    /\ Len(stack) > 0 /\ Top.fn = "_git_run" /\ Top.pc \in {"l64", "l85"}
    /\ stack' = SetTop([Top EXCEPT !.pc = IF Top.pc = "l64" THEN "l64w" ELSE "l85w"])
    /\ running' = running + 1
    /\ executions' = Append(executions, Execution(Top))
    /\ UNCHANGED <<call, ret, outcome, files, next_file>>
    /\ UNCHANGED <<fs_removed, hostVars, pureVars>>

\* lines 64-70: the child of an identity attempt exits, or cmd.run_all raises;
\* either way control enters the finally block
git_run_exec_done ==
    /\ At("_git_run", "l64w")
    /\ running' = running - 1
    /\ \/ \E r \in ProcResults(Top.command) :
             /\ stack' = SetTop([Top EXCEPT !.pc = "l72", !.result = r])
             /\ executions' = Returned(r)
       \/ /\ stack' = SetTop([Top EXCEPT !.pc = "l72", !.pending = CmdError])
          /\ executions' = Raised
    /\ UNCHANGED <<call, ret, outcome, files, next_file>>
    /\ UNCHANGED <<fs_removed, hostVars, pureVars>>

\* git_run_finally without the os.remove of line 73
git_run_finally_keep ==
    /\ At("_git_run", "l72")
    /\ IF Top.pending # NoExc
       THEN Raise(Top.pending)
       ELSE /\ stack' = SetTop([Top EXCEPT !.pc = "l76"])
            /\ UNCHANGED <<ret, outcome>>
    /\ UNCHANGED <<call, files, next_file, running, executions>>
    /\ UNCHANGED <<fs_removed, hostVars, pureVars>>

\* lines 71-73: finally: if 'GIT_SSH' in env: os.remove(env['GIT_SSH']); an
\* exception of the try block then propagates
git_run_finally ==
    /\ At("_git_run", "l72")
    /\ files' = IF "GIT_SSH" \in DOMAIN Top.env
                THEN files \ {Top.env["GIT_SSH"]} ELSE files
    /\ IF Top.pending # NoExc
       THEN Raise(Top.pending)
       ELSE /\ stack' = SetTop([Top EXCEPT !.pc = "l76"])
            /\ UNCHANGED <<ret, outcome>>
    /\ UNCHANGED <<call, next_file, running, executions>>
    /\ UNCHANGED <<fs_removed, hostVars, pureVars>>

\* lines 75-79: retcode 0 returns the result; otherwise its stderr is recorded
git_run_classify ==
    /\ At("_git_run", "l76")
    /\ IF Top.result.retcode = 0
       THEN Return(Top.result)
       ELSE /\ stack' = SetTop([Top EXCEPT !.pc = "l47",
                                           !.stderrs = Append(Top.stderrs, Top.result.stderr)])
            /\ UNCHANGED <<ret, outcome>>
    /\ UNCHANGED <<call, files, next_file, running, executions>>
    /\ UNCHANGED <<fs_removed, hostVars, pureVars>>

\* git_run_exhausted joining the excerpts with a single newline
git_run_exhausted_newline ==
    /\ At("_git_run", "l82")
    /\ Raise(Exc("CommandExecutionError", Join(<<"\n">>, Top.stderrs)))
    /\ UNCHANGED <<call, files, next_file, running, executions>>
    /\ UNCHANGED <<fs_removed, hostVars, pureVars>>

\* lines 81-82: raise CommandExecutionError("\n\n".join(stderrs))
git_run_exhausted ==
    /\ At("_git_run", "l82")
    /\ Raise(Exc("CommandExecutionError", Join(<<"\n", "\n">>, Top.stderrs)))
    /\ UNCHANGED <<call, files, next_file, running, executions>>
    /\ UNCHANGED <<fs_removed, hostVars, pureVars>>

\* lines 85-91: the child of the single attempt exits, or cmd.run_all raises
git_run_single_done ==
    /\ At("_git_run", "l85w")
    /\ running' = running - 1
    /\ \/ /\ \E r \in ProcResults(Top.command) :
                /\ stack' = SetTop([Top EXCEPT !.pc = "l92", !.result = r])
                /\ executions' = Returned(r)
          /\ UNCHANGED <<ret, outcome>>
       \/ /\ Raise(CmdError)
          /\ executions' = Raised
    /\ UNCHANGED <<call, files, next_file>>
    /\ UNCHANGED <<fs_removed, hostVars, pureVars>>

\* the message of lines 97-99
FailedMsg(command, stderr) ==
    <<"C", "o", "m", "m", "a", "n", "d", " ", "'">> \o FormatCommand(command)
    \o <<"'", " ", "f", "a", "i", "l", "e", "d">>
    \o (IF Len(stderr) > 0 THEN <<":", " ">> \o stderr ELSE <<>>)

\* git_run_single_classify letting ignore_retcode turn a failure into a return
git_run_single_classify_ignore ==
    /\ At("_git_run", "l92")
    /\ IF Top.result.retcode = 0 \/ Top.ignore_retcode
       THEN Return(Top.result)
       ELSE Raise(Exc("CommandExecutionError",
                      FailedMsg(Top.command, Top.result.stderr)))
    /\ UNCHANGED <<call, files, next_file, running, executions>>
    /\ UNCHANGED <<fs_removed, hostVars, pureVars>>

\* lines 92-100: retcode 0 returns the result; otherwise CommandExecutionError
git_run_single_classify ==
    /\ At("_git_run", "l92")
    /\ IF Top.result.retcode = 0
       THEN Return(Top.result)
       ELSE Raise(Exc("CommandExecutionError",
                      FailedMsg(Top.command, Top.result.stderr)))
    /\ UNCHANGED <<call, files, next_file, running, executions>>
    /\ UNCHANGED <<fs_removed, hostVars, pureVars>>

\* ------------------------------------------------------ calls between frames

\* the innermost frame moves to pc `after` and calls _git_run(...)
CallGitRun(after, command, cwd, runas, identity, ignore_retcode) ==
    /\ stack' = Append(SetTop([Top EXCEPT !.pc = after]),
                       GitRunFrame(command, cwd, runas, identity, ignore_retcode))
    /\ UNCHANGED <<ret, outcome>>

\* the innermost frame moves to pc `after` and calls the function of frame f
CallFrame(after, f) ==
    /\ stack' = Append(SetTop([Top EXCEPT !.pc = after]), f)
    /\ UNCHANGED <<ret, outcome>>

\* what a step that only computes, calls, returns or raises leaves alone
Quiet ==
    /\ UNCHANGED <<call, files, next_file, running, executions>>
    /\ UNCHANGED <<fs_removed, hostVars, pureVars>>

InvalidArgument(msg) == Exc("SaltInvocationError", msg)
BasicAuthError == InvalidArgument(<<"B", "a", "s", "i", "c", " ", "A", "u", "t", "h", " ", "o", "n", "l", "y", " ", "s", "u", "p", "p", "o", "r", "t", "e", "d", " ", "f", "o", "r", " ", "H", "T", "T", "P", "S">>)

\* ------------------------------------------------------------ current_branch
\* lines 189-194
current_branch ==
    /\ At("current_branch", "l189")
    /\ LET f == Top
           e == _check_abs(<<f.cwd>>)
       IN IF e # NoExc THEN Raise(e)
          ELSE CallGitRun("l191",
                          <<GIT, Lit(<<"r", "e", "v", "-", "p", "a", "r", "s", "e">>), Lit(<<"-", "-", "a", "b", "b", "r", "e", "v", "-", "r", "e", "f">>), Lit(<<"H", "E", "A", "D">>)>>,
                          f.cwd, f.user, None, f.ignore_retcode)
    /\ Quiet

\* lines 191-194: return _git_run(...)['stdout']
current_branch_l191 ==
    /\ At("current_branch", "l191")
    /\ Return(PyStr(ret.stdout))
    /\ Quiet

\* --------------------------------------------------------------------- clone
\* lines 305-323
clone ==
    /\ At("clone", "l305")
    /\ LET f == Top
           e == _check_abs(<<f.cwd>>)
           url == IF f.repository # None THEN f.repository ELSE f.url
           auth == _add_http_basic_auth(url, f.https_user, f.https_pass)
           o == _format_opts(f.opts)
       IN IF e # NoExc THEN Raise(e)
          ELSE IF ~Truthy(url)
               THEN Raise(InvalidArgument(<<"M", "i", "s", "s", "i", "n", "g", " ", "'", "u", "r", "l", "'", " ", "a", "r", "g", "u", "m", "e", "n", "t">>))
          ELSE IF ~auth.ok THEN Raise(BasicAuthError)
          ELSE IF ~o.ok THEN Raise(Exc(o.exc, <<>>))
          ELSE CallGitRun("l320", <<GIT, Lit(<<"c", "l", "o", "n", "e">>), auth.v, f.cwd>> \o o.v.v,
                          None, f.user, f.identity, f.ignore_retcode)
    /\ Quiet

\* lines 320-323: return _git_run(...)['stdout']
clone_l320 ==
    /\ At("clone", "l320")
    /\ Return(PyStr(ret.stdout))
    /\ Quiet

\* ----------------------------------------------------------------- submodule
\* lines 1007-1022
submodule ==
    /\ At("submodule", "l1007")
    /\ LET f == Top
           e == _check_abs(<<f.cwd>>)
           o == _format_opts(f.opts)
       IN IF e # NoExc THEN Raise(e)
          ELSE IF Truthy(f.init)
               THEN Raise(InvalidArgument(<<"T", "h", "e", " ", "'", "i", "n", "i", "t", "'", " ", "a", "r", "g", "u", "m", "e", "n", "t", " ", "i", "s", " ", "n", "o", " ", "l", "o", "n", "g", "e", "r", " ", "s", "u", "p", "p", "o", "r", "t", "e", "d", ".", " ", "E", "i", "t", "h", "e", "r", " ", "s", "e", "t", " ", "'", "c", "o", "m", "m", "a", "n", "d", "'", " ", "t", "o", " ", "'", "i", "n", "i", "t", "'", ",", " ", "o", "r", " ", "i", "n", "c", "l", "u", "d", "e", " ", "'", "-", "-", "i", "n", "i", "t", "'", " ", "i", "n", " ", "t", "h", "e", " ", "'", "o", "p", "t", "s", "'", " ", "a", "r", "g", "u", "m", "e", "n", "t", " ", "a", "n", "d", " ", "s", "e", "t", " ", "'", "c", "o", "m", "m", "a", "n", "d", "'", " ", "t", "o", " ", "'", "u", "p", "d", "a", "t", "e", "'", ".">>))
          ELSE IF ~o.ok THEN Raise(Exc(o.exc, <<>>))
          ELSE CallGitRun("l1018", <<GIT, Lit(<<"s", "u", "b", "m", "o", "d", "u", "l", "e">>), str(f.command)>> \o o.v.v,
                          f.cwd, f.user, f.identity, f.ignore_retcode)
    /\ Quiet

\* lines 1018-1022: return _git_run(...)['stdout']
submodule_l1018 ==
    /\ At("submodule", "l1018")
    /\ Return(PyStr(ret.stdout))
    /\ Quiet

\* -------------------------------------------------------------- worktree_add
\* lines 2183-2215
worktree_add ==
    /\ At("worktree_add", "l2183")
    /\ LET f == Top
           e == _check_abs(<<f.cwd>>)
           branch == IF Truthy(f.branch) THEN f.branch
                     ELSE Lit(basename(f.worktree_path.v))
           flags == IF Truthy(f.detach) THEN <<Lit(<<"-", "-", "d", "e", "t", "a", "c", "h">>)>>
                    ELSE <<IF Truthy(f.reset_branch) THEN Lit(<<"-", "B">>) ELSE Lit(<<"-", "b">>), branch>>
                         \o (IF Truthy(f.force) THEN <<Lit(<<"-", "-", "f", "o", "r", "c", "e">>)>> ELSE <<>>)
           o == _format_opts(f.opts)
           ref == IF Truthy(f.ref) THEN <<str(f.ref)>> ELSE <<>>
       IN IF e # NoExc THEN Raise(e)
          ELSE IF Truthy(f.branch) /\ Truthy(f.detach)
               THEN Raise(InvalidArgument(<<"O", "n", "l", "y", " ", "o", "n", "e", " ", "o", "f", " ", "'", "b", "r", "a", "n", "c", "h", "'", " ", "a", "n", "d", " ", "'", "d", "e", "t", "a", "c", "h", "'", " ", "i", "s", " ", "a", "l", "l", "o", "w", "e", "d">>))
          ELSE IF Truthy(f.detach) /\ Truthy(f.force) /\ "log" \notin host_globals
               THEN Raise(Exc("NameError", <<"l", "o", "g">>))
          ELSE IF ~o.ok THEN Raise(Exc(o.exc, <<>>))
          ELSE CallGitRun("l2212",
                          <<GIT, Lit(<<"w", "o", "r", "k", "t", "r", "e", "e">>), Lit(<<"a", "d", "d">>)>> \o flags \o o.v.v
                          \o <<str(f.worktree_path)>> \o ref,
                          f.cwd, f.user, None, f.ignore_retcode)
    /\ Quiet

\* lines 2212-2215: return _git_run(...)['stderr']
worktree_add_l2212 ==
    /\ At("worktree_add", "l2212")
    /\ Return(PyStr(ret.stderr))
    /\ Quiet

\* -------------------------------------------------------------- symbolic_ref
\* command.extend(value) for a string value: one element per character
CharsOf(s) == [k \in 1..Len(s) |-> PyStr(<<s[k]>>)]

\* x in opts, for a list of strings
InList(x, l) == \E k \in 1..Len(l) : l[k] = x

\* lines 2448-2463
symbolic_ref ==
    /\ At("symbolic_ref", "l2448")
    /\ LET f == Top
           e == _check_abs(<<f.cwd>>)
           o == _format_opts(f.opts)
       IN IF e # NoExc THEN Raise(e)
          ELSE IF ~o.ok THEN Raise(Exc(o.exc, <<>>))
          ELSE IF f.value # None
                  /\ (InList(Lit(<<"-", "d">>), o.v.v) \/ InList(Lit(<<"-", "-", "d", "e", "l", "e", "t", "e">>), o.v.v))
               THEN Raise(InvalidArgument(
                        <<"V", "a", "l", "u", "e", " ", "c", "a", "n", "n", "o", "t", " ", "b", "e", " ", "s", "e", "t", " ", "f", "o", "r", " ", "s", "y", "m", "b", "o", "l", "i", "c", " ", "r", "e", "f", " ", "i", "f", " ", "-", "d", "/", "-", "-", "d", "e", "l", "e", "t", "e", " ", "i", "s", " ", "i", "n", "c", "l", "u", "d", "e", "d", " ", "i", "n", " ", "o", "p", "t", "s">>))
          ELSE CallGitRun("l2460",
                          <<GIT, Lit(<<"s", "y", "m", "b", "o", "l", "i", "c", "-", "r", "e", "f">>)>> \o o.v.v \o <<f.ref>>
                          \o (IF Truthy(f.value) THEN CharsOf(f.value.v) ELSE <<>>),
                          f.cwd, f.user, None, f.ignore_retcode)
    /\ Quiet

\* lines 2460-2463: return _git_run(...)['stdout']
symbolic_ref_l2460 ==
    /\ At("symbolic_ref", "l2460")
    /\ Return(PyStr(ret.stdout))
    /\ Quiet

\* ------------------------------------------------------------------- remotes
\* a dict: a function from keys to values; {} is the empty function
EmptyDict == <<>>
HasKey(d, k) == k \in DOMAIN d
\* d.setdefault(k, {})[a] = val
SetIn(d, k, a, val) ==
    IF HasKey(d, k) THEN [d EXCEPT ![k] = (a :> val) @@ d[k]]
    ELSE (k :> (a :> val)) @@ d

\* lines 1381-1398 for one line: the dict after it, or the NameError of the
\* log.warning of line 1393
RemoteLine(d, remote_line) ==
    LET first == SplitFirst(remote_line)
        second == RSplitLast(first[2])
        action == Lower(RStrip(LStrip(second[2], {"("}), {")"}))
    IN IF Len(first) # 2 THEN Ok(d)
       ELSE IF Len(second) # 2 THEN Ok(d)
       ELSE IF action \notin { <<"f", "e", "t", "c", "h">>, <<"p", "u", "s", "h">> }
            THEN IF "log" \in host_globals THEN Ok(d) ELSE Err("NameError")
       ELSE Ok(SetIn(d, first[1], action, second[1]))

RECURSIVE RemoteLines(_, _)
\* the loop of lines 1381-1398 over the lines of the listing
RemoteLines(d, lines) ==
    IF lines = <<>> THEN Ok(d)
    ELSE LET one == RemoteLine(d, Head(lines)) IN
         IF one.ok THEN RemoteLines(one.v, Tail(lines)) ELSE one

RemotesFrame(cwd, user, ignore_retcode) ==
    [fn |-> "remotes", pc |-> "l1374", cwd |-> cwd, user |-> user,
     ignore_retcode |-> ignore_retcode]

\* lines 1374-1380
remotes ==
    /\ At("remotes", "l1374")
    /\ LET f == Top
           e == _check_abs(<<f.cwd>>)
       IN IF e # NoExc THEN Raise(e)
          ELSE CallGitRun("l1377", RemoteVerbose, f.cwd, f.user, None, f.ignore_retcode)
    /\ Quiet

\* lines 1381-1399: the listing is parsed and the dict returned
remotes_l1377 ==
    /\ At("remotes", "l1377")
    /\ LET parsed == RemoteLines(EmptyDict, splitlines(ret.stdout)) IN
       IF parsed.ok THEN Return(parsed.v) ELSE Raise(Exc(parsed.exc, <<"l", "o", "g">>))
    /\ Quiet

\* -------------------------------------------------------------------- status
RECURSIVE SplitOn(_, _)
\* s.split(c) for a one-character separator c
SplitOn(s, c) ==
    IF ~HasChar(s, c) THEN <<s>>
    ELSE <<Upto(s, IndexOf(s, c) - 1)>> \o SplitOn(From(s, IndexOf(s, c) + 1), c)

state_map_verbatim(state) == state

\* lines 1054-1059: state_map.get(state, state)
state_map(state) ==
    CASE state = <<"M">> -> <<"m", "o", "d", "i", "f", "i", "e", "d">>
      [] state = <<"A">> -> <<"n", "e", "w">>
      [] state = <<"D">> -> <<"d", "e", "l", "e", "t", "e", "d">>
      [] state = <<"?", "?">> -> <<"u", "n", "t", "r", "a", "c", "k", "e", "d">>
      [] OTHER -> state

\* ret.setdefault(k, []).append(x)
AppendIn(d, k, x) ==
    IF HasKey(d, k) THEN [d EXCEPT ![k] = Append(@, x)] ELSE (k :> <<x>>) @@ d

\* lines 1066-1070 for one segment, its split given
StatusSplit(d, parts) ==
    IF Len(parts) # 2 THEN d ELSE AppendIn(d, state_map(parts[1]), parts[2])

RECURSIVE StatusLines(_, _)
\* the loop of lines 1065-1070 over the segments of the output
StatusLines(d, lines) ==
    IF lines = <<>> THEN d
    ELSE StatusLines(StatusSplit(d, SplitFirst(Head(lines))), Tail(lines))

\* lines 1059, 1065-1071: the map status() returns for an output
ParseStatus(output) == StatusLines(EmptyDict, SplitOn(output, NUL))

\* lines 1053, 1060-1064
status ==
    /\ At("status", "l1053")
    /\ LET e == _check_abs(<<Top.cwd>>) IN
       IF e # NoExc THEN Raise(e)
       ELSE CallGitRun("l1061", StatusCommand, Top.cwd, Top.user, None,
                       Top.ignore_retcode)
    /\ Quiet

\* lines 1065-1071
status_l1061 ==
    /\ At("status", "l1061")
    /\ Return(ParseStatus(ret.stdout))
    /\ Quiet

\* ----------------------------------------------------------------- ls_remote
\* lines 1994-2000: one copy of the first word of the output for each of its
\* lines, joined by newlines
LsRemoteResult(lines, words) ==
    IF words = <<>> THEN <<>>
    ELSE Join(<<"\n">>, [k \in 1..Len(lines) |-> words[1]])

\* lines 1980-1993
ls_remote ==
    /\ At("ls_remote", "l1980")
    /\ LET f == Top
           e == _check_abs(<<f.cwd>>)
           auth == _add_http_basic_auth(f.remote, f.https_user, f.https_pass)
           o == _format_opts(f.opts)
       IN IF e # NoExc THEN Raise(e)
          ELSE IF ~auth.ok THEN Raise(BasicAuthError)
          ELSE IF ~o.ok THEN Raise(Exc(o.exc, <<>>))
          ELSE CallGitRun("l1989",
                          <<GIT, Lit(<<"l", "s", "-", "r", "e", "m", "o", "t", "e">>)>> \o o.v.v \o <<auth.v, str(f.ref)>>,
                          f.cwd, f.user, f.identity, f.ignore_retcode)
    /\ Quiet

\* lines 1994-2000
ls_remote_l1989 ==
    /\ At("ls_remote", "l1989")
    /\ Return(PyStr(LsRemoteResult(splitlines(ret.stdout), SplitFirst(ret.stdout))))
    /\ Quiet

\* ---------------------------------------------------------------- remote_get
\* lines 1429-1430
remote_get ==
    /\ At("remote_get", "l1429")
    /\ LET f == Top
           e == _check_abs(<<f.cwd>>)
       IN IF e # NoExc THEN Raise(e)
          ELSE CallFrame("l1430", RemotesFrame(f.cwd, f.user, f.ignore_retcode))
    /\ Quiet

\* lines 1431-1436
remote_get_l1430 ==
    /\ At("remote_get", "l1430")
    /\ IF ~HasKey(ret, Top.remote.v)
       THEN Raise(Exc("CommandExecutionError", <<"R", "e", "m", "o", "t", "e", " ", "n", "o", "t", " ", "p", "r", "e", "s", "e", "n", "t">>))
       ELSE Return(ret[Top.remote.v])
    /\ Quiet

\* ---------------------------------------------------------------- remote_set
\* line 1506: remotes(cwd, user=user, ignore_retcode=ignore_retcode)
remote_set ==
    /\ At("remote_set", "l1506")
    /\ CallFrame("l1507", RemotesFrame(Top.cwd, Top.user, Top.ignore_retcode))
    /\ Quiet

\* lines 1506-1520: `if remote not in remotes(...)` reads log (line 1507) and
\* then name (line 1511), which is no parameter, local or global of the module;
\* otherwise the URL is rewritten and `git remote add` is run
remote_set_l1507 ==
    /\ At("remote_set", "l1507")
    /\ LET f == Top
           auth == _add_http_basic_auth(f.url, f.https_user, f.https_pass)
       IN IF ~HasKey(ret, f.remote.v)
          THEN Raise(Exc("NameError",
                         IF "log" \in host_globals THEN <<"n", "a", "m", "e">> ELSE <<"l", "o", "g">>))
          ELSE IF ~auth.ok THEN Raise(BasicAuthError)
          ELSE CallGitRun("l1521", <<GIT, Lit(<<"r", "e", "m", "o", "t", "e">>), Lit(<<"a", "d", "d">>), f.remote, auth.v>>,
                          f.cwd, f.user, None, f.ignore_retcode)
    /\ Quiet

\* the call of lines 1531-1534 passes runas=, which remote_get does not accept
RemoteGetTypeError == Exc("TypeError", <<"r", "u", "n", "a", "s">>)

\* lines 1521-1534: the push URL, if any, is rewritten and set; with none the
\* call of remote_get raises TypeError
remote_set_l1521 ==
    /\ At("remote_set", "l1521")
    /\ LET f == Top
           auth == _add_http_basic_auth(str(f.push_url), f.push_https_user,
                                        f.push_https_pass)
       IN IF ~Truthy(f.push_url) THEN Raise(RemoteGetTypeError)
          ELSE IF ~auth.ok THEN Raise(BasicAuthError)
          ELSE CallGitRun("l1531",
                          <<GIT, Lit(<<"r", "e", "m", "o", "t", "e">>), Lit(<<"s", "e", "t", "-", "u", "r", "l">>), Lit(<<"-", "-", "p", "u", "s", "h">>), f.remote,
                            auth.v>>,
                          f.cwd, f.user, None, f.ignore_retcode)
    /\ Quiet

\* lines 1531-1534 after `git remote set-url --push` of line 1530
remote_set_l1531 ==
    /\ At("remote_set", "l1531")
    /\ Raise(RemoteGetTypeError)
    /\ Quiet

\* ------------------------------------------------------------- _get_toplevel
GetToplevelFrame(path, user) ==
    [fn |-> "_get_toplevel", pc |-> "l157", path |-> path, user |-> user]

\* lines 157-161
_get_toplevel ==
    /\ At("_get_toplevel", "l157")
    /\ CallGitRun("l161", <<GIT, Lit(<<"r", "e", "v", "-", "p", "a", "r", "s", "e">>), Lit(<<"-", "-", "s", "h", "o", "w", "-", "t", "o", "p", "l", "e", "v", "e", "l">>)>>,
                  Top.path, Top.user, None, FALSE)
    /\ Quiet

\* line 161: return _git_run(...)['stdout']
_get_toplevel_l161 ==
    /\ At("_get_toplevel", "l161")
    /\ Return(PyStr(ret.stdout))
    /\ Quiet

\* --------------------------------------------------------------- is_worktree
IsWorktreeFrame(worktree_path, user) ==
    [fn |-> "is_worktree", pc |-> "l2076", worktree_path |-> worktree_path,
     user |-> user]

\* what reading <toplevel>/.git can give: IOError (a directory, or missing),
\* or the text of the file
GitFileTexts == { <<>>, <<"g", "i", "t", "d", "i", "r", ":", " ", "/", "g", "\n">>, <<"g", "i", "t", "d", "i", "r", ":", " ", "g", "\n">>, <<"g", "i", "t", "d", "i", "r", ":", "\n">>, <<"x", " ", "y", "\n">> }

\* lines 2085-2102 on the text of the file: only its first line decides
GitFileSaysWorktree(text) ==
    LET lines == splitlines(text)
        parts == SplitFirst(lines[1] \o <<"\n">>)
    IN /\ Len(lines) > 0
       /\ Len(parts) = 2
       /\ parts[1] = <<"g", "i", "t", "d", "i", "r", ":">>
       /\ isabs(parts[2])

\* lines 2076-2078: _get_toplevel is called without the user
is_worktree ==
    /\ At("is_worktree", "l2076")
    /\ LET e == _check_abs(<<Top.worktree_path>>) IN
       IF e # NoExc THEN Raise(e)
       ELSE CallFrame("l2078", GetToplevelFrame(Top.worktree_path, None))
    /\ Quiet

\* lines 2079-2080: except CommandExecutionError: return False
is_worktree_l2080 ==
    /\ At("is_worktree", "l2080")
    /\ Return(PyBool(FALSE))
    /\ Quiet

\* lines 2081-2102: the .git file of the top level is read
is_worktree_l2078 ==
    /\ At("is_worktree", "l2078")
    /\ \/ Return(PyBool(FALSE))
       \/ \E text \in GitFileTexts : Return(PyBool(GitFileSaysWorktree(text)))
    /\ Quiet

\* --------------------------------------------------------------- worktree_rm
\* lines 2330-2332: os.path.exists, then is_worktree(worktree_path)
worktree_rm ==
    /\ At("worktree_rm", "l2330")
    /\ LET f == Top IN
       IF ~IsStr(f.worktree_path) THEN Raise(Exc("TypeError", <<"e", "x", "i", "s", "t", "s">>))
       ELSE IF ~f.exists
            THEN Raise(Exc("CommandExecutionError",
                           f.worktree_path.v \o <<" ", "d", "o", "e", "s", " ", "n", "o", "t", " ", "e", "x", "i", "s", "t">>))
       ELSE CallFrame("l2332", IsWorktreeFrame(f.worktree_path, None))
    /\ Quiet

\* worktree_rm_l2332 removing the path whatever is_worktree returned
worktree_rm_l2332_unguarded ==
    /\ At("worktree_rm", "l2332")
    /\ Return(PyBool(TRUE))
    /\ fs_removed' = fs_removed \cup {Top.worktree_path.v}
    /\ UNCHANGED <<call, files, next_file, running, executions>>
    /\ UNCHANGED <<hostVars, pureVars>>

\* lines 2332-2340: not a worktree is an error; otherwise salt.utils.rm_rf
\* removes the path, or fails
worktree_rm_l2332 ==
    /\ At("worktree_rm", "l2332")
    /\ LET f == Top IN
       IF ~Truthy(ret)
       THEN /\ Raise(Exc("CommandExecutionError",
                         f.worktree_path.v \o <<" ", "i", "s", " ", "n", "o", "t", " ", "a", " ", "g", "i", "t", " ", "w", "o", "r", "k", "t", "r", "e", "e">>))
            /\ UNCHANGED fs_removed
       ELSE \/ /\ Return(PyBool(TRUE))
               /\ fs_removed' = fs_removed \cup {f.worktree_path.v}
            \/ /\ Raise(Exc("CommandExecutionError", <<"U", "n", "a", "b", "l", "e", " ", "t", "o", " ", "r", "e", "m", "o", "v", "e", " ">> \o f.worktree_path.v))
               /\ UNCHANGED fs_removed
    /\ UNCHANGED <<call, files, next_file, running, executions>>
    /\ UNCHANGED <<hostVars, pureVars>>

\* ------------------------------------------------------------------ checkout
\* lines 732-739; salt.utils.warn_until only warns on a host older than the
\* release it names, here and below
checkout ==
    /\ At("checkout", "l732")
    /\ LET f == Top
           e == _check_abs(<<f.cwd>>)
           rev == shlex_split(str(f.rev).v)
           o == _format_opts(f.opts)
       IN IF e # NoExc THEN Raise(e)
          ELSE IF ~rev.ok THEN Raise(Exc(rev.exc, <<>>))
          ELSE IF ~o.ok THEN Raise(Exc(o.exc, <<>>))
          ELSE CallGitRun("l741", <<GIT, Lit(<<"c", "h", "e", "c", "k", "o", "u", "t">>)>>
                                  \o (IF Truthy(f.force) THEN <<Lit(<<"-", "-", "f", "o", "r", "c", "e">>)>> ELSE <<>>)
                                  \o rev.v.v \o o.v.v,
                          f.cwd, f.user, None, f.ignore_retcode)
    /\ Quiet

\* lines 741-744: return _git_run(...)['stderr']
checkout_l741 ==
    /\ At("checkout", "l741")
    /\ Return(PyStr(ret.stderr))
    /\ Quiet

\* --------------------------------------------------------------------- merge
\* lines 809-822
merge ==
    /\ At("merge", "l809")
    /\ LET f == Top
           e == _check_abs(<<f.cwd>>)
           rev == IF Truthy(f.branch) THEN f.branch ELSE f.rev
           o == _format_opts(f.opts)
       IN IF e # NoExc THEN Raise(e)
          ELSE IF ~o.ok THEN Raise(Exc(o.exc, <<>>))
          ELSE CallGitRun("l823", <<GIT, Lit(<<"m", "e", "r", "g", "e">>)>>
                                  \o (IF Truthy(rev) THEN <<str(rev)>> ELSE <<>>)
                                  \o o.v.v,
                          f.cwd, f.user, None, f.ignore_retcode)
    /\ Quiet

\* lines 823-826: return _git_run(...)['stdout']
merge_l823 ==
    /\ At("merge", "l823")
    /\ Return(PyStr(ret.stdout))
    /\ Quiet

\* ----------------------------------------------------------------------- add
\* line 1120: the formatted opts without -v and --verbose
NotVerbose(x) == x \notin {Lit(<<"-", "v">>), Lit(<<"-", "-", "v", "e", "r", "b", "o", "s", "e">>)}

\* lines 1115-1122
add ==
    /\ At("add", "l1115")
    /\ LET f == Top
           e == _check_abs(<<f.cwd>>)
           o == _format_opts(f.opts)
       IN IF e # NoExc THEN Raise(e)
          ELSE IF ~o.ok THEN Raise(Exc(o.exc, <<>>))
          ELSE CallGitRun("l1123", <<GIT, Lit(<<"a", "d", "d">>), Lit(<<"-", "-", "v", "e", "r", "b", "o", "s", "e">>)>>
                                   \o SelectSeq(o.v.v, NotVerbose)
                                   \o <<SEP, str(f.filename)>>,
                          f.cwd, f.user, None, f.ignore_retcode)
    /\ Quiet

\* lines 1123-1126: return _git_run(...)['stdout']
add_l1123 ==
    /\ At("add", "l1123")
    /\ Return(PyStr(ret.stdout))
    /\ Quiet

\* ------------------------------------------------------------------------ rm
\* lines 1172-1175
rm ==
    /\ At("rm", "l1172")
    /\ LET f == Top
           e == _check_abs(<<f.cwd>>)
           o == _format_opts(f.opts)
       IN IF e # NoExc THEN Raise(e)
          ELSE IF ~o.ok THEN Raise(Exc(o.exc, <<>>))
          ELSE CallGitRun("l1176", <<GIT, Lit(<<"r", "m">>)>> \o o.v.v \o <<SEP, f.filename>>,
                          f.cwd, f.user, None, f.ignore_retcode)
    /\ Quiet

\* lines 1176-1179: return _git_run(...)['stdout']
rm_l1176 ==
    /\ At("rm", "l1176")
    /\ Return(PyStr(ret.stdout))
    /\ Quiet

\* -------------------------------------------------------------------- commit
\* lines 1235-1243
commit ==
    /\ At("commit", "l1235")
    /\ LET f == Top
           e == _check_abs(<<f.cwd>>)
           o == _format_opts(f.opts)
       IN IF e # NoExc THEN Raise(e)
          ELSE IF ~o.ok THEN Raise(Exc(o.exc, <<>>))
          ELSE CallGitRun("l1244", <<GIT, Lit(<<"c", "o", "m", "m", "i", "t">>), Lit(<<"-", "m">>), f.message>> \o o.v.v
                                   \o (IF Truthy(f.filename) THEN <<SEP, str(f.filename)>> ELSE <<>>),
                          f.cwd, f.user, None, f.ignore_retcode)
    /\ Quiet

\* lines 1244-1247: return _git_run(...)['stdout']
commit_l1244 ==
    /\ At("commit", "l1244")
    /\ Return(PyStr(ret.stdout))
    /\ Quiet

\* ---------------------------------------------------------------------- push
\* lines 1328-1342
push ==
    /\ At("push", "l1328")
    /\ LET f == Top
           e == _check_abs(<<f.cwd>>)
           ref == IF Truthy(f.branch) THEN f.branch ELSE f.ref
           o == _format_opts(f.opts)
       IN IF e # NoExc THEN Raise(e)
          ELSE IF ~o.ok THEN Raise(Exc(o.exc, <<>>))
          ELSE CallGitRun("l1343", <<GIT, Lit(<<"p", "u", "s", "h">>)>> \o o.v.v \o <<str(f.remote), str(ref)>>,
                          f.cwd, f.user, f.identity, f.ignore_retcode)
    /\ Quiet

\* lines 1343-1347: return _git_run(...)['stdout']
push_l1343 ==
    /\ At("push", "l1343")
    /\ Return(PyStr(ret.stdout))
    /\ Quiet

\* --------------------------------------------------------------------- fetch
\* lines 567-573: the name format_opts of line 573 is bound nowhere in the
\* module, so the call ends there
fetch ==
    /\ At("fetch", "l567")
    /\ LET e == _check_abs(<<Top.cwd>>) IN
       IF e # NoExc THEN Raise(e)
       ELSE Raise(Exc("NameError", <<"f", "o", "r", "m", "a", "t", "_", "o", "p", "t", "s">>))
    /\ Quiet

\* ---------------------------------------------------- config_set, config_get
GLOBAL == Lit(<<"g", "l", "o", "b", "a", "l">>)
\* lines 1834-1836 and 1886-1888: cwd is neither `global` nor absolute
BadScope(cwd) == cwd # GLOBAL /\ ~isabs(cwd.v)

\* lines 1823-1841
config_set ==
    /\ At("config_set", "l1823")
    /\ LET f == Top
           e == _check_abs(<<f.cwd>>)
           cwd == IF Truthy(f.is_global) THEN GLOBAL ELSE f.cwd
       IN IF e # NoExc THEN Raise(e)
          ELSE IF BadScope(cwd)
               THEN Raise(InvalidArgument(<<"P", "a", "t", "h", " ", "m", "u", "s", "t", " ", "b", "e", " ", "e", "i", "t", "h", "e", "r", " ", "'", "g", "l", "o", "b", "a", "l", "'", " ", "o", "r", " ", "a", "n", " ", "a", "b", "s", "o", "l", "u", "t", "e", " ", "p", "a", "t", "h", " ", "t", "o", " ", "a", " ", "g", "i", "t", " ", "c", "h", "e", "c", "k", "o", "u", "t">>))
          ELSE CallGitRun("l1842", <<GIT, Lit(<<"c", "o", "n", "f", "i", "g">>)>>
                                   \o (IF cwd = GLOBAL THEN <<Lit(<<"-", "-", "g", "l", "o", "b", "a", "l">>)>> ELSE <<>>)
                                   \o <<f.key, f.value>>,
                          IF cwd # GLOBAL THEN cwd ELSE None, f.user, None, f.ignore_retcode)
    /\ Quiet

\* lines 1842-1845: return _git_run(...)['stdout']
config_set_l1842 ==
    /\ At("config_set", "l1842")
    /\ Return(PyStr(ret.stdout))
    /\ Quiet

\* lines 1884-1893
config_get ==
    /\ At("config_get", "l1884")
    /\ LET f == Top
           e == _check_abs(<<f.cwd>>)
       IN IF e # NoExc THEN Raise(e)
          ELSE IF BadScope(f.cwd)
               THEN Raise(InvalidArgument(<<"T", "h", "e", " ", "c", "w", "d", " ", "m", "u", "s", "t", " ", "b", "e", " ", "e", "i", "t", "h", "e", "r", " ", "'", "g", "l", "o", "b", "a", "l", "'", " ", "o", "r", " ", "a", "n", " ", "a", "b", "s", "o", "l", "u", "t", "e", " ", "p", "a", "t", "h", " ", "t", "o", " ", "a", " ", "g", "i", "t", " ", "c", "h", "e", "c", "k", "o", "u", "t">>))
          ELSE CallGitRun("l1894", <<GIT, Lit(<<"c", "o", "n", "f", "i", "g">>), Lit(<<"-", "-", "g", "e", "t">>)>>
                                   \o (IF f.cwd = GLOBAL THEN <<Lit(<<"-", "-", "g", "l", "o", "b", "a", "l">>)>> ELSE <<>>)
                                   \o <<f.key>>,
                          IF f.cwd # GLOBAL THEN f.cwd ELSE None, f.user, None, f.ignore_retcode)
    /\ Quiet

\* lines 1894-1897: return _git_run(...)['stdout']
config_get_l1894 ==
    /\ At("config_get", "l1894")
    /\ Return(PyStr(ret.stdout))
    /\ Quiet

\* ------------------------------------------------------------------- version
contextkey == <<"g", "i", "t", ".", "v", "e", "r", "s", "i", "o", "n">>
contextkey_info == <<"g", "i", "t", ".", "v", "e", "r", "s", "i", "o", "n", "i", "n", "f", "o">>
UNKNOWN == <<"u", "n", "k", "n", "o", "w", "n">>

\* int(part) for a part of decimal digits
RECURSIVE IntOf(_)
IntOf(part) ==
    IF part = <<>> THEN 0
    ELSE 10 * IntOf(Upto(part, Len(part) - 1))
         + (CHOOSE n \in 0..9 : Digit(n) = part[Len(part)])
\* lines 2047-2050: int(part), or the part itself on ValueError
VersionPart(part) ==
    IF part # <<>> /\ \A k \in 1..Len(part) : part[k] \in Digits
    THEN PyInt(IntOf(part)) ELSE PyStr(part)
\* lines 2043-2050: the versioninfo list of a version string
VersionInfo(version_) ==
    [k \in 1..Len(SplitOn(version_, ".")) |-> VersionPart(SplitOn(version_, ".")[k])]

\* the frame of a call version(versioninfo, user)
VersionFrame(versioninfo, user) ==
    [fn |-> "version", pc |-> "l2022", versioninfo |-> versioninfo, user |-> user,
     version_ |-> <<>>]

\* lines 2022-2025: the probe runs unless the string is in __context__
version ==
    /\ At("version", "l2022")
    /\ IF HasKey(context, contextkey)
       THEN /\ stack' = SetTop([Top EXCEPT !.pc = "l2040"])
            /\ UNCHANGED <<ret, outcome>>
       ELSE CallGitRun("l2025", VersionCommand, None, Top.user, None, FALSE)
    /\ Quiet

\* line 2025: version_ = the standard output of the probe
version_l2025 ==
    /\ At("version", "l2025")
    /\ stack' = SetTop([Top EXCEPT !.pc = "l2033", !.version_ = ret.stdout])
    /\ UNCHANGED <<ret, outcome>>
    /\ Quiet

\* lines 2026-2031: except CommandExecutionError: log.error(...), then
\* version_ = 'unknown'
version_l2027 ==
    /\ At("version", "l2027")
    /\ IF "log" \notin host_globals
       THEN Raise(Exc("NameError", <<"l", "o", "g">>))
       ELSE /\ stack' = SetTop([Top EXCEPT !.pc = "l2033", !.version_ = UNKNOWN])
            /\ UNCHANGED <<ret, outcome>>
    /\ Quiet

\* lines 2032-2039: __context__[contextkey] = version_.split()[-1], or
\* 'unknown' after the log.error of line 2038 when there is no word
version_l2033 ==
    /\ At("version", "l2033")
    /\ IF RSplitLast(Top.version_) # <<>>
       THEN /\ context' = (contextkey :> RSplitLast(Top.version_)[Len(RSplitLast(Top.version_))]) @@ context
            /\ stack' = SetTop([Top EXCEPT !.pc = "l2040"])
            /\ UNCHANGED <<ret, outcome>>
       ELSE IF "log" \notin host_globals
       THEN Raise(Exc("NameError", <<"l", "o", "g">>)) /\ UNCHANGED context
       ELSE /\ context' = (contextkey :> UNKNOWN) @@ context
            /\ stack' = SetTop([Top EXCEPT !.pc = "l2040"])
            /\ UNCHANGED <<ret, outcome>>
    /\ UNCHANGED <<call, files, next_file, running, executions, returns>>
    /\ UNCHANGED <<fs_removed, hostVars, fmtVars, statusVars>>

\* lines 2040-2052: the string, or the versioninfo list, computed on its
\* first use and kept in __context__
version_l2040 ==
    /\ At("version", "l2040")
    /\ IF ~Truthy(Top.versioninfo)
       THEN Return(PyStr(context[contextkey])) /\ UNCHANGED context
       ELSE IF HasKey(context, contextkey_info)
       THEN Return(PyList(context[contextkey_info])) /\ UNCHANGED context
       ELSE /\ context' = (contextkey_info :> VersionInfo(context[contextkey])) @@ context
            /\ Return(PyList(VersionInfo(context[contextkey])))
    /\ UNCHANGED <<call, files, next_file, running, executions, returns>>
    /\ UNCHANGED <<fs_removed, hostVars, fmtVars, statusVars>>

\* ------------------------------------------------------- the inputs of a call
\* all sequences over S of length at most n
BSeq(S, n) == UNION {[1..m -> S] : m \in 0..n}

Keys == {PyStr(<<"k", "1">>), PyStr(<<"k", "2">>)}
\* an Identity Set: absent, a bare key path (or the empty string), or a list
IdentityInputs ==
    {None, PyStr(<<>>)} \cup Keys \cup {PyList(l) : l \in BSeq(Keys, MaxIds)}

\* a direct call of the runner, as the operations make it
Call_git_run ==
    /\ Idle
    /\ \E identity \in IdentityInputs, ignore_retcode \in BOOLEAN :
          /\ call' = [fn |-> "_git_run", identity |-> identity,
                      ignore_retcode |-> ignore_retcode]
          /\ stack' = <<GitRunFrame(<<GIT, PyStr(<<"s", "t">>)>>, AbsPath, None,
                                    identity, ignore_retcode)>>
    /\ UNCHANGED <<ret, outcome, files, next_file, running, executions>>
    /\ UNCHANGED <<fs_removed, hostVars, pureVars>>

User == Lit(<<"u">>)
Users == {None, User}
CwdInputs == {AbsPath, RelPath, None}
HttpsUrl == Lit(<<"h", "t", "t", "p", "s", ":", "/", "/", "h">>)
SshUrl == Lit(<<"s", "s", "h", ":", "/", "/", "h">>)
HttpUrl == Lit(<<"h", "t", "t", "p", ":", "/", "/", "h">>)
PlainUrl == Lit(<<"h", "/", "p">>)
Urls == {HttpsUrl, SshUrl, HttpUrl, PlainUrl}
SmallOpts == {Lit(<<>>), Lit(<<"-", "d">>), PyList(<<>>)}
PyBools == {PyBool(FALSE), PyBool(TRUE)}
OpIdentities == {None, PyStr(<<"k", "1">>)}

\* the calls of the public operations: every parameter the body reads
OpCalls ==
    [fn : {"current_branch"}, pc : {"l189"}, cwd : CwdInputs, user : Users,
     ignore_retcode : BOOLEAN]
    \cup [fn : {"clone"}, pc : {"l305"}, cwd : CwdInputs, url : Urls \cup {None},
          repository : {None, SshUrl}, opts : {Lit(<<>>)}, user : {None},
          identity : OpIdentities, https_user : Users, https_pass : {None},
          ignore_retcode : {FALSE}]
    \cup [fn : {"submodule"}, pc : {"l1007"}, cwd : CwdInputs,
          command : {Lit(<<"i", "n", "i", "t">>)}, opts : SmallOpts, init : PyBools,
          user : {None}, identity : OpIdentities, ignore_retcode : {FALSE}]
    \cup [fn : {"worktree_add"}, pc : {"l2183"}, cwd : CwdInputs,
          worktree_path : {Lit(<<"/", "w", "/", "t">>)}, ref : {None, Lit(<<"m">>)},
          reset_branch : {None, PyBool(TRUE)}, force : {None, PyBool(TRUE)},
          detach : PyBools,
          opts : {Lit(<<>>)}, user : {None}, ignore_retcode : {FALSE},
          branch : {None, Lit(<<"b">>)}]
    \cup [fn : {"symbolic_ref"}, pc : {"l2448"}, cwd : CwdInputs,
          ref : {Lit(<<"H", "E", "A", "D">>)}, value : {None, Lit(<<>>), Lit(<<"r", "/", "m">>)},
          opts : SmallOpts, user : {None}, ignore_retcode : {FALSE}]
    \cup [fn : {"remotes"}, pc : {"l1374"}, cwd : CwdInputs, user : Users,
          ignore_retcode : {FALSE}]
    \cup [fn : {"remote_get"}, pc : {"l1429"}, cwd : CwdInputs,
          remote : {Lit(<<"o">>), Lit(<<"q">>)}, user : {None}, ignore_retcode : {FALSE}]
    \cup [fn : {"remote_set"}, pc : {"l1506"}, cwd : CwdInputs, url : Urls,
          remote : {Lit(<<"o">>)}, user : {None}, https_user : Users,
          https_pass : {None}, push_url : {None} \cup Urls,
          push_https_user : Users, push_https_pass : {None},
          ignore_retcode : {FALSE}]
    \cup [fn : {"status"}, pc : {"l1053"}, cwd : CwdInputs, user : {None},
          ignore_retcode : {FALSE}]
    \cup [fn : {"ls_remote"}, pc : {"l1980"}, cwd : CwdInputs, remote : Urls,
          ref : {Lit(<<"m">>)}, opts : {Lit(<<>>)}, user : {None},
          identity : OpIdentities, https_user : Users, https_pass : {None},
          ignore_retcode : {FALSE}]
    \cup [fn : {"is_worktree"}, pc : {"l2076"}, worktree_path : CwdInputs,
          user : Users]
    \cup [fn : {"worktree_rm"}, pc : {"l2330"}, worktree_path : CwdInputs,
          exists : BOOLEAN, user : Users]

\* a call of a public operation
Call_operation ==
    /\ Idle
    /\ \E f \in OpCalls :
          /\ call' = f
          /\ stack' = <<f>>
    /\ UNCHANGED <<ret, outcome, files, next_file, running, executions>>
    /\ UNCHANGED <<fs_removed, hostVars, pureVars>>

\* option values: strings and lists, with and without a closing `--`
ArgvOpts ==
    { Lit(<<>>), Lit(<<"-", "x">>), Lit(<<"-", "x", " ", "-", "-">>), Lit(<<"-", "-">>), None,
      PyList(<<Lit(<<"-", "x">>)>>), PyList(<<Lit(<<"-", "x">>), SEP>>), PyList(<<SEP>>),
      PyList(<<PyInt(1), SEP>>) }
ArgvCwds == {AbsPath, RelPath}
\* the calls of the operations that build an argument vector from opts and
\* positional arguments, the legacy aliases among their parameters
ArgvCalls ==
    [fn : {"clone"}, pc : {"l305"}, cwd : ArgvCwds, url : {HttpsUrl},
     repository : {None, SshUrl}, opts : ArgvOpts, user : {None},
     identity : {None}, https_user : {None}, https_pass : {None},
     ignore_retcode : {FALSE}]
    \cup [fn : {"checkout"}, pc : {"l732"}, cwd : ArgvCwds, rev : {Lit(<<"m">>)},
          force : PyBools, opts : ArgvOpts, user : {None}, ignore_retcode : {FALSE}]
    \cup [fn : {"merge"}, pc : {"l809"}, cwd : ArgvCwds, rev : {None, Lit(<<"m">>)},
          opts : ArgvOpts, user : {None}, branch : {None, Lit(<<"b">>)},
          ignore_retcode : {FALSE}]
    \cup [fn : {"add"}, pc : {"l1115"}, cwd : ArgvCwds, filename : {Lit(<<"f">>)},
          opts : ArgvOpts, user : {None}, ignore_retcode : {FALSE}]
    \cup [fn : {"rm"}, pc : {"l1172"}, cwd : ArgvCwds, filename : {Lit(<<"f">>)},
          opts : ArgvOpts, user : {None}, ignore_retcode : {FALSE}]
    \cup [fn : {"commit"}, pc : {"l1235"}, cwd : ArgvCwds, message : {Lit(<<"c">>)},
          opts : ArgvOpts, user : {None}, filename : {None, Lit(<<"f">>)},
          ignore_retcode : {FALSE}]
    \cup [fn : {"push"}, pc : {"l1328"}, cwd : ArgvCwds, remote : {Lit(<<"o">>)},
          ref : {None, Lit(<<"m">>)}, opts : ArgvOpts, user : {None},
          identity : {None}, ignore_retcode : {FALSE}, branch : {None, Lit(<<"b">>)}]
    \cup [fn : {"fetch"}, pc : {"l567"}, cwd : ArgvCwds, remote : {None, Lit(<<"o">>)},
          opts : ArgvOpts, user : {None}, identity : {None}, ignore_retcode : {FALSE}]
    \cup [fn : {"config_set"}, pc : {"l1823"}, cwd : ArgvCwds \cup {GLOBAL},
          key : {Lit(<<"k">>)}, value : {Lit(<<"v">>)}, user : {None},
          ignore_retcode : {FALSE}, is_global : PyBools]
    \cup [fn : {"config_get"}, pc : {"l1884"}, cwd : ArgvCwds \cup {GLOBAL},
          key : {Lit(<<"k">>)}, user : {None}, ignore_retcode : {FALSE}]

\* a call of one of them
Call_argv_operation ==
    /\ Idle
    /\ \E f \in ArgvCalls :
          /\ call' = f
          /\ stack' = <<f>>
    /\ UNCHANGED <<ret, outcome, files, next_file, running, executions>>
    /\ UNCHANGED <<fs_removed, hostVars, pureVars>>

\* the calls of version() one process makes
MaxCalls == 2
\* version(versioninfo, user) is called in a fresh process, or again once
\* the call before it has ended
Call_version ==
    /\ stack = <<>>
    /\ call = NoCall \/ (call.fn = "version" /\ outcome.kind # "none")
    /\ Len(returns) + 1 < MaxCalls \/ call = NoCall
    /\ \E versioninfo \in PyBools, user \in Users :
          /\ call' = VersionFrame(versioninfo, user)
          /\ stack' = <<VersionFrame(versioninfo, user)>>
    /\ returns' = IF call = NoCall THEN returns
                  ELSE Append(returns, [versioninfo |-> call.versioninfo, outcome |-> outcome])
    /\ outcome' = NoOutcome
    /\ ret' = None
    /\ UNCHANGED <<files, next_file, running, executions, fs_removed, context>>
    /\ UNCHANGED <<hostVars, fmtVars, statusVars>>

\* ------------------------------------------------- the formatter on its own
Pending == Err("pending")

OptChars == {"-", "x", " ", "'"}
OptElems == {SEP, PyStr(<<"-", "x">>), PyStr(<<>>), PyInt(0), PyInt(1),
             PyBool(FALSE), None}
\* None, a string, a scalar, or a sequence of strings and scalars
OptInputs ==
    {None, PyInt(0), PyInt(1), PyBool(TRUE)}
    \cup {PyStr(s) : s \in BSeq(OptChars, MaxStrLen)}
    \cup {PyList(l) : l \in BSeq(OptElems, MaxListLen)}

\* fmt = _format_opts(opts)
Format ==
    /\ fmt = Pending
    /\ fmt' = _format_opts(opts)
    /\ UNCHANGED <<opts, fmt_again, fmt_short, machineVars, hostVars, statusVars, versionVars>>

\* fmt_again = _format_opts(fmt): the formatter run on its own output
Reformat ==
    /\ fmt.ok /\ fmt_again = Pending
    /\ fmt_again' = _format_opts(fmt.v)
    /\ UNCHANGED <<opts, fmt, fmt_short, machineVars, hostVars, statusVars, versionVars>>

\* fmt_short = _format_opts(opts[:-1]) for a non-empty sequence opts
FormatShort ==
    /\ opts.t = "list" /\ Len(opts.v) > 0 /\ fmt_short = Pending
    /\ fmt_short' = _format_opts(PyList(SubSeq(opts.v, 1, Len(opts.v) - 1)))
    /\ UNCHANGED <<opts, fmt, fmt_again, machineVars, hostVars, statusVars, versionVars>>

\* ------------------------------------------- the Auth URL Rewriter on its own
AuthSchemes == { <<"h", "t", "t", "p", "s", ":">>, <<"H", "T", "T", "P", "S", ":">>, <<"h", "t", "t", "p", ":">>, <<"s", "s", "h", ":">>, <<"g", "i", "t", ":">>, <<>>, <<"h", "t", "t", "p", "s">> }
AuthRests == { <<>>, <<"h">>, <<"/", "p">>, <<"/", "/", "h">>, <<"/", "/", "h", "/", "p">>, <<"/", "/", "h", "/", "p", ";", "a", "?", "q", "#", "f">>, <<"/", "/", "v", "@", "h", ":", "1", "/", "p">>, <<"/", "/", "h", "?", "q">>, <<"/", "/", "h", "#", "f">> }
AuthUrls == {PyStr(a \o b) : a \in AuthSchemes, b \in AuthRests}
Credentials == {None, Lit(<<"u">>), Lit(<<"w">>)}

\* a direct call of the rewriter, as clone, ls_remote and remote_set make it
Call_add_http_basic_auth ==
    /\ Idle
    /\ \E url \in AuthUrls, https_user \in Credentials, https_pass \in Credentials :
          /\ call' = [fn |-> "_add_http_basic_auth", pc |-> "l137", url |-> url,
                      https_user |-> https_user, https_pass |-> https_pass]
          /\ stack' = <<call'>>
    /\ UNCHANGED <<ret, outcome, files, next_file, running, executions>>
    /\ UNCHANGED <<fs_removed, hostVars, pureVars>>

\* lines 137-150
add_http_basic_auth ==
    /\ At("_add_http_basic_auth", "l137")
    /\ LET auth == _add_http_basic_auth(Top.url, Top.https_user, Top.https_pass) IN
       IF auth.ok THEN Return(auth.v) ELSE Raise(BasicAuthError)
    /\ Quiet

\* ------------------------------------------------ status parsing on its own
\* segments of a status output: entries `XY path`, a bare code, a bare path,
\* nothing, an entry with an unknown code, a path with a blank in it, and
\* the two segments of a rename
StatusSegments ==
    { <<"M", " ", "f">>, <<" ", "M", " ", "f">>, <<"A", " ", "g">>, <<"D", " ", "f">>, <<"?", "?", " ", "b">>, <<"M", "M", " ", "f">>, <<"M", " ", "a", " ", "b">>,
      <<"M">>, <<"f">>, <<>>,
      \* a rename `R  to NUL from NUL`, the old path with a blank in it
      <<"R", " ", " ", "n">>, <<"o", "l", "d", " ", "n">> }
MaxSegments == 3
StatusOutputs ==
    {Join(<<NUL>>, segs) : segs \in BSeq(StatusSegments, MaxSegments)}
    \cup {Join(<<NUL>>, segs) \o <<NUL>> : segs \in BSeq(StatusSegments, MaxSegments)}
    \cup { <<"M">> \o <<NUL>> \o <<"f", "o", "o", ".", "p", "y">> \o <<NUL>> \o <<"?", "?">> \o <<NUL>> \o <<"b", "a", "r", ".", "t", "x", "t">> \o <<NUL>>,
           <<"M", " ", "f", "o", "o", ".", "p", "y">> \o <<NUL>> \o <<"?", "?", " ", "b", "a", "r", ".", "t", "x", "t">> \o <<NUL>> }

\* status_ret = the map status() returns for the output status_output
ParseStatusOutput ==
    /\ status_ret = Pending
    /\ status_ret' = Ok(ParseStatus(status_output))
    /\ UNCHANGED <<status_output, machineVars, hostVars, fmtVars, versionVars>>

\* ------------------------------------------------------- the specifications

InitMachine ==
    /\ call = NoCall
    /\ stack = <<>>
    /\ ret = None
    /\ outcome = NoOutcome
    /\ files = {}
    /\ next_file = 1
    /\ running = 0
    /\ executions = <<>>
    /\ fs_removed = {}

\* the formatter, the rewriter and the status parser have not been called
FormatIdle == opts = None /\ fmt = Pending /\ fmt_again = Pending /\ fmt_short = Pending
StatusIdle == status_output = <<>> /\ status_ret = Pending
\* a fresh process: __context__ is empty and version() has not been called
VersionIdle == context = EmptyDict /\ returns = <<>>

Init ==
    /\ InitMachine
    /\ is_windows \in BOOLEAN
    /\ host_globals \in SUBSET FreeNames
    /\ FormatIdle /\ StatusIdle /\ VersionIdle

Next ==
    \/ Call_git_run
    \/ Call_add_http_basic_auth
    \/ add_http_basic_auth
    \/ Call_operation
    \/ current_branch
    \/ current_branch_l191
    \/ clone
    \/ clone_l320
    \/ submodule
    \/ submodule_l1018
    \/ worktree_add
    \/ worktree_add_l2212
    \/ symbolic_ref
    \/ symbolic_ref_l2460
    \/ remotes
    \/ remotes_l1377
    \/ status
    \/ status_l1061
    \/ ls_remote
    \/ ls_remote_l1989
    \/ remote_get
    \/ remote_get_l1430
    \/ remote_set
    \/ remote_set_l1507
    \/ remote_set_l1521
    \/ remote_set_l1531
    \/ _get_toplevel
    \/ _get_toplevel_l161
    \/ is_worktree
    \/ is_worktree_l2080
    \/ is_worktree_l2078
    \/ worktree_rm
    \/ worktree_rm_l2332
    \/ git_run_enter
    \/ git_run_for
    \/ git_run_is_windows
    \/ git_run_mkstemp
    \/ git_run_copyfile
    \/ git_run_chmod
    \/ git_run_chown
    \/ git_run_exec
    \/ git_run_exec_done
    \/ git_run_finally
    \/ git_run_classify
    \/ git_run_exhausted
    \/ git_run_single_done
    \/ git_run_single_classify

Spec == Init /\ [][Next]_vars

InitFormat ==
    /\ InitMachine
    /\ is_windows = FALSE
    /\ host_globals = {}
    /\ opts \in OptInputs
    /\ fmt = Pending /\ fmt_again = Pending /\ fmt_short = Pending
    /\ StatusIdle /\ VersionIdle

NextFormat == Format \/ Reformat \/ FormatShort

SpecFormat == InitFormat /\ [][NextFormat]_vars

InitStatus ==
    /\ InitMachine
    /\ is_windows = FALSE
    /\ host_globals = {}
    /\ FormatIdle /\ VersionIdle
    /\ status_output \in StatusOutputs
    /\ status_ret = Pending

NextStatus == ParseStatusOutput

SpecStatus == InitStatus /\ [][NextStatus]_vars

InitVersion ==
    /\ InitMachine
    /\ is_windows = FALSE
    /\ host_globals \in SUBSET FreeNames
    /\ FormatIdle /\ StatusIdle /\ VersionIdle

NextVersion ==
    \/ Call_version
    \/ version
    \/ version_l2025
    \/ version_l2027
    \/ version_l2033
    \/ version_l2040
    \/ git_run_enter
    \/ git_run_exec
    \/ git_run_single_done
    \/ git_run_single_classify

SpecVersion == InitVersion /\ [][NextVersion]_vars

InitArgv ==
    /\ InitMachine
    /\ is_windows = FALSE
    /\ host_globals \in SUBSET FreeNames
    /\ FormatIdle /\ StatusIdle /\ VersionIdle

NextArgv ==
    \/ Call_argv_operation
    \/ clone
    \/ clone_l320
    \/ checkout
    \/ checkout_l741
    \/ merge
    \/ merge_l823
    \/ add
    \/ add_l1123
    \/ rm
    \/ rm_l1176
    \/ commit
    \/ commit_l1244
    \/ push
    \/ push_l1343
    \/ fetch
    \/ config_set
    \/ config_set_l1842
    \/ config_get
    \/ config_get_l1894
    \/ git_run_enter
    \/ git_run_exec
    \/ git_run_single_done
    \/ git_run_single_classify

SpecArgv == InitArgv /\ [][NextArgv]_vars

\* ------------------------------------------------------------ the properties
Ended == outcome.kind # "none"
RunnerCall == call.fn = "_git_run"
\* the Identity Set of the call as a sequence
IdsOf(identity) == IF identity.t = "list" THEN identity.v ELSE <<identity>>
LastExecution == executions[Len(executions)]
\* the call ended because the host failed: a filesystem step of the wrapper's
\* materialization, or cmd.run_all itself, raised
HostFailure ==
    /\ outcome.kind = "raise"
    /\ \/ outcome.exc.type \in {"OSError", "IOError"}
       \/ Len(executions) > 0 /\ LastExecution.raised
\* execution k returned an Invocation Result with a nonzero exit code
ExitedNonzero(k) ==
    executions[k].done /\ ~executions[k].raised /\ executions[k].result.retcode # 0

\* C1: with a non-empty Identity Set the identities are attempted in order, one
\* execution each; the executions are the prefix of the set ending at the first
\* one that exits 0, whose result is returned; nothing runs after it.
C1_IdentityRetryOrder ==
    (RunnerCall /\ Truthy(call.identity)) =>
        LET ids == IdsOf(call.identity)
            n == Len(executions)
        IN /\ n <= Len(ids)
           /\ \A k \in 1..n : executions[k].env["GIT_IDENTITY"] = ids[k]
           /\ \A k \in 1..(n - 1) : ExitedNonzero(k)
           /\ (Ended /\ ~HostFailure) =>
                 /\ n >= 1
                 /\ LastExecution.result.retcode = 0 =>
                        outcome.kind = "return" /\ outcome.v = LastExecution.result
                 /\ LastExecution.result.retcode # 0 => n = Len(ids)

C5_SingleAttempt ==
    (RunnerCall /\ call.identity = None) =>
        /\ Len(executions) <= 1
        /\ \A k \in 1..Len(executions) :
              executions[k].env = <<>>
              /\ executions[k].ignore_retcode = call.ignore_retcode
        /\ Ended =>
              /\ Len(executions) = 1
              /\ ~LastExecution.raised =>
                    IF LastExecution.result.retcode = 0
                    THEN outcome.kind = "return" /\ outcome.v = LastExecution.result
                    ELSE outcome.kind = "raise"
                         /\ outcome.exc.type = "CommandExecutionError"

\* a nonzero exit with failure logging suppressed still raises
C5_Witness ==
    /\ RunnerCall /\ call.identity = None /\ call.ignore_retcode
    /\ Ended /\ Len(executions) = 1 /\ LastExecution.result.retcode = 1
    /\ outcome.kind = "raise" /\ outcome.exc.type = "CommandExecutionError"

\* the runner is called with an empty Identity Set: [] or ''
EmptyIdentitySet == RunnerCall /\ call.identity \in {PyList(<<>>), PyStr(<<>>)}
\* the message the single attempt of `git st` raises for a standard error
SingleAttemptMessage(stderr) ==
    <<"C", "o", "m", "m", "a", "n", "d", " ", "'", "[", "'", "g", "i", "t", "'", ",", " ", "'", "s", "t", "'", "]", "'", " ", "f", "a", "i", "l", "e", "d">> \o (IF stderr # <<>> THEN <<":", " ">> \o stderr ELSE <<>>)

\* C21: with an empty Identity Set the runner behaves as with none: one
\* execution with an empty environment overlay, no wrapper file created,
\* exit code 0 returns the result, a nonzero exit code raises
\* CommandExecutionError with the message of the single attempt
C21_EmptyIdentitySet ==
    EmptyIdentitySet =>
        /\ Len(executions) <= 1
        /\ files = {} /\ next_file = 1
        /\ \A k \in 1..Len(executions) : executions[k].env = <<>>
        /\ Ended =>
              /\ Len(executions) = 1
              /\ ~LastExecution.raised =>
                    IF LastExecution.result.retcode = 0
                    THEN outcome.kind = "return" /\ outcome.v = LastExecution.result
                    ELSE /\ outcome.kind = "raise"
                         /\ outcome.exc.type = "CommandExecutionError"
                         /\ outcome.exc.msg = SingleAttemptMessage(LastExecution.result.stderr)

C21_Witness ==
    /\ RunnerCall /\ call.identity = PyList(<<>>)
    /\ Ended /\ Len(executions) = 1 /\ LastExecution.result.retcode = 1
    /\ LastExecution.env = <<>>
    /\ outcome.kind = "raise" /\ outcome.exc.type = "CommandExecutionError"
    /\ outcome.exc.msg = <<"C", "o", "m", "m", "a", "n", "d", " ", "'", "[", "'", "g", "i", "t", "'", ",", " ", "'", "s", "t", "'", "]", "'", " ", "f", "a", "i", "l", "e", "d", ":", " ", "e", "1">>

\* -------------------------------------------- properties of the operations
\* the call is one of a public operation that takes a path
PublicCall == call.fn \notin {"none", "_git_run", "_add_http_basic_auth"}
\* the working directory or target path the call was given
PathOf(c) == IF "cwd" \in DOMAIN c THEN c.cwd ELSE c.worktree_path
InvalidArgumentRaised ==
    outcome.kind = "raise" /\ outcome.exc.type = "SaltInvocationError"

\* C6: every public operation called with a relative working-directory or
\* target path fails with InvalidArgument (SaltInvocationError), and no
\* process execution has occurred when the error is raised.
C6_RelativePathRejected ==
    (PublicCall /\ PathOf(call) = RelPath) =>
        /\ executions = <<>>
        /\ Ended => InvalidArgumentRaised

\* C7: whenever a public operation fails with InvalidArgument, no process has
\* been executed by that call; in particular remote_set with credentials and a
\* non-https url or push_url has run no git command when the error is raised.
C7_InvalidArgumentBeforeProcess ==
    (PublicCall /\ InvalidArgumentRaised) => executions = <<>>

\* the last process execution of the call returned exit code 0
ExecutionsSucceeded ==
    /\ Len(executions) > 0
    /\ LastExecution.done /\ ~LastExecution.raised
    /\ LastExecution.result.retcode = 0

\* ---------------------------------------- properties of failure propagation
\* the last process execution of the call exited nonzero: the sole attempt
\* did, or the attempt for the last identity after all the others
LastAttemptFailed ==
    /\ Len(executions) > 0
    /\ ExitedNonzero(Len(executions))
ExecutionFailed == outcome.kind = "raise" /\ outcome.exc.type = "CommandExecutionError"

\* C16: a public operation one of whose process executions exits nonzero, on
\* the sole attempt or on every identity, fails with CommandExecutionError
\* and returns no value
C16_NoFailureAsSuccess ==
    (PublicCall /\ Ended /\ LastAttemptFailed) => ExecutionFailed

\* --------------------------------------- properties of the argument vector
\* the operation has handed its argument vector to the Command Runner
Handed == Len(executions) >= 1
ArgumentVector == executions[1].command
InVector(x) == \E k \in DOMAIN ArgumentVector : ArgumentVector[k] = x
\* both the canonical parameter and its alias are given, with different values
BothGiven(canonical, alias) == canonical # None /\ alias # None /\ canonical # alias

\* C18: when a canonical parameter and its deprecated alias are both given
\* with different values (clone url/repository, merge rev/branch, push
\* ref/branch), the argument vector holds the canonical value and not the
\* alias's
C18_CanonicalPreferred ==
    Handed =>
        /\ (call.fn = "clone" /\ BothGiven(call.url, call.repository))
               => InVector(call.url) /\ ~InVector(call.repository)
        /\ (call.fn = "merge" /\ BothGiven(call.rev, call.branch))
               => InVector(call.rev) /\ ~InVector(call.branch)
        /\ (call.fn = "push" /\ BothGiven(call.ref, call.branch))
               => InVector(call.ref) /\ ~InVector(call.branch)

\* the number of elements before the opts: binary name, subcommand and flags
FlagsEnd ==
    CASE call.fn = "checkout" -> IF Truthy(call.force) THEN 3 ELSE 2
      [] call.fn = "add" -> 3
      [] call.fn = "commit" -> 4
      [] OTHER -> 2
\* the elements that come from opts
FromOpts == _format_opts(call.opts).v.v

\* C19: the argument vector of an operation that accepts opts is the binary
\* name and subcommand, the operation's flags, the formatted opts, then the
\* positional arguments: no positional argument comes before an element
\* that came from opts
C19_VectorLayout ==
    (Handed /\ call.fn \in {"clone", "checkout", "merge", "add", "rm", "commit", "push"}) =>
        /\ Len(ArgumentVector) >= FlagsEnd + Len(FromOpts)
        /\ SubSeq(ArgumentVector, FlagsEnd + 1, FlagsEnd + Len(FromOpts)) = FromOpts

\* the option values that end with the separator, as a list or as a string
SeparatorOpts ==
    { Lit(<<"-", "x", " ", "-", "-">>), Lit(<<"-", "-">>), PyList(<<Lit(<<"-", "x">>), SEP>>), PyList(<<SEP>>),
      PyList(<<PyInt(1), SEP>>) }
Separators == {k \in DOMAIN ArgumentVector : ArgumentVector[k] = SEP}

\* C20: for add, rm and commit with a filename, when opts ends with the
\* separator `--`, as a list or as a string, the argument vector holds the
\* separator exactly once, immediately before the filename
C20_SeparatorOnce ==
    (Handed /\ call.fn \in {"add", "rm", "commit"} /\ Truthy(call.filename)
            /\ call.opts \in SeparatorOpts) =>
        /\ Separators = {Len(ArgumentVector) - 1}
        /\ ArgumentVector[Len(ArgumentVector)] = call.filename

\* the call named the global scope by passing the word `global` as cwd
GlobalScope == call.fn \in {"config_set", "config_get"} /\ call.cwd = GLOBAL

\* C22: config_get and config_set with cwd the word `global` pass path
\* validation and execute `git config` with --global and no working
\* directory
C22_GlobalScope ==
    (GlobalScope /\ Ended) =>
        /\ ~InvalidArgumentRaised
        /\ Handed
        /\ InVector(Lit(<<"-", "-", "g", "l", "o", "b", "a", "l">>))
        /\ ArgumentVector[1] = GIT /\ ArgumentVector[2] = Lit(<<"c", "o", "n", "f", "i", "g">>)
        /\ executions[1].cwd = None

\* C27: fetch called without a remote hands the runner `git fetch` followed
\* by the formatted opts only, with no remote name
C27_FetchDefaultRemote ==
    (call.fn = "fetch" /\ call.remote = None /\ call.cwd = AbsPath /\ Ended
        /\ _format_opts(call.opts).ok) =>
        /\ Handed
        /\ ArgumentVector = <<GIT, Lit(<<"f", "e", "t", "c", "h">>)>> \o FromOpts

\* ------------------------------------------------- properties of version
\* how the version() calls of the process that are over ended, in order
VersionReturns ==
    returns \o (IF call.fn = "version" /\ Ended
                THEN <<[versioninfo |-> call.versioninfo, outcome |-> outcome]>>
                ELSE <<>>)
\* the dot-separated parts of a version string, numbers as integers
PartsOf(s) ==
    CASE s = <<"1", ".", "1", "0">> -> <<PyInt(1), PyInt(10)>>
      [] s = <<"2", ".", "a">> -> <<PyInt(2), PyStr(<<"a">>)>>
      [] OTHER -> <<PyStr(s)>>

\* C17: over the version() calls of one process, whatever their arguments
\* and whether the probe succeeds or fails, `git --version` is executed at
\* most once, every call with versioninfo false returns the same string S,
\* and every call with versioninfo true returns the parts of S
C17_VersionMemoized ==
    (call.fn = "version") =>
        /\ Len(executions) <= 1
        /\ \A i \in DOMAIN VersionReturns : VersionReturns[i].outcome.kind = "return"
        /\ \E s \in { <<"1", ".", "1", "0">>, <<"2", ".", "a">>, UNKNOWN } :
               \A i \in DOMAIN VersionReturns :
                   VersionReturns[i].outcome.v =
                       IF Truthy(VersionReturns[i].versioninfo)
                       THEN PyList(PartsOf(s)) ELSE PyStr(s)

\* ------------------------------------------------- properties of remotes
\* remotes() was called and its one listing exited 0
RemotesListed ==
    /\ call.fn = "remotes"
    /\ Ended
    /\ Len(executions) = 1
    /\ executions[1].done /\ ~executions[1].raised
    /\ executions[1].result.retcode = 0
\* the map of remote names to {fetch, push} maps that a listing stands for
RemotesOf(listing) ==
    CASE listing = <<"o", " ", "u", " ", "(", "f", "e", "t", "c", "h", ")", "\n", "o", " ", "v", " ", "(", "p", "u", "s", "h", ")">> -> (<<"o">> :> ((<<"f", "e", "t", "c", "h">> :> <<"u">>) @@ (<<"p", "u", "s", "h">> :> <<"v">>)))
      [] listing = <<"o", " ", "u", " ", "(", "x", ")", "\n", "o", " ", "u", " ", "(", "f", "e", "t", "c", "h", ")">> -> (<<"o">> :> (<<"f", "e", "t", "c", "h">> :> <<"u">>))
      [] OTHER -> EmptyDict

\* C15: for every successful verbose listing remotes() returns the map of
\* the well-formed fetch and push lines; a line that fails a split or has
\* another action is skipped and parsing goes on with the following lines
C15_RemotesParsed ==
    RemotesListed =>
        /\ outcome.kind = "return"
        /\ outcome.v = RemotesOf(executions[1].result.stdout)

\* ------------------------------------------ properties of the URL rewriter
RewriterCall == call.fn = "_add_http_basic_auth"
\* the text of the url starts with `https:`, in any case of the letters
HttpsUrlText(u) == Len(u) >= 6 /\ Lower(SubSeq(u, 1, 6)) = <<"h", "t", "t", "p", "s", ":">>
\* remote_set has reached line 1514: `git remote --verbose` exited 0 and its
\* listing, parsed without error, names the remote
ListedRemote ==
    /\ Len(executions) >= 1
    /\ executions[1].done /\ ~executions[1].raised
    /\ executions[1].result.retcode = 0
    /\ RemoteLines(EmptyDict, splitlines(executions[1].result.stdout)).ok
    /\ HasKey(RemoteLines(EmptyDict, splitlines(executions[1].result.stdout)).v,
              call.remote.v)
\* the url clone hands to the rewriter
CloneUrl == IF call.repository # None THEN call.repository ELSE call.url
\* the call reaches the rewriter with a credential and a url that is not https
RefusedCase ==
    \/ /\ RewriterCall
       /\ call.https_user # None \/ call.https_pass # None
       /\ ~HttpsUrlText(call.url.v)
    \/ /\ call.fn = "clone" /\ call.cwd = AbsPath /\ Truthy(CloneUrl)
       /\ call.https_user # None \/ call.https_pass # None
       /\ ~HttpsUrlText(CloneUrl.v)
    \/ /\ call.fn = "ls_remote" /\ call.cwd = AbsPath
       /\ call.https_user # None \/ call.https_pass # None
       /\ ~HttpsUrlText(call.remote.v)
    \/ /\ call.fn = "remote_set" /\ ListedRemote
       /\ call.https_user # None \/ call.https_pass # None
       /\ ~HttpsUrlText(call.url.v)

\* C11: when a username or a password is supplied and the scheme of the URL
\* is not https (http, ssh, git, no scheme), _add_http_basic_auth fails with
\* InvalidArgument and returns no URL, and clone, ls_remote and remote_set
\* end with that error, having handed no URL to git clone, ls-remote or
\* remote add.
C11_AuthRefused ==
    RefusedCase =>
        /\ Ended => InvalidArgumentRaised /\ outcome.exc = BasicAuthError
        /\ \A k \in 1..Len(executions) : executions[k].command = RemoteVerbose

\* ls_remote, given a user name and an http URL, has ended with the refusal
C11_Witness ==
    /\ call.fn = "ls_remote" /\ call.remote = HttpUrl /\ call.https_user = User
    /\ call.cwd = AbsPath
    /\ InvalidArgumentRaised /\ outcome.exc = BasicAuthError

\* the rewritten URL has the authority `<user>:<password>@<original authority>`
\* and the scheme, path, query and fragment of the URL given
Rewritten ==
    /\ outcome.kind = "return"
    /\ _urlparse(outcome.v.v).netloc =
          call.https_user.v \o <<":">> \o call.https_pass.v \o <<"@">>
          \o _urlparse(call.url.v).netloc
    /\ _urlparse(outcome.v.v).scheme = _urlparse(call.url.v).scheme
    /\ _urlparse(outcome.v.v).path = _urlparse(call.url.v).path
    /\ _urlparse(outcome.v.v).query = _urlparse(call.url.v).query
    /\ _urlparse(outcome.v.v).fragment = _urlparse(call.url.v).fragment
\* both credentials are absent: the URL comes back unchanged
Unchanged ==
    (call.https_user = None /\ call.https_pass = None) =>
        outcome.kind = "return" /\ outcome.v = call.url
\* what follows `https:` is empty or starts with `/`, `?` or `#`: the URL has
\* an authority, or a path that is empty or absolute
RootedUrlText(u) == Len(u) = 6 \/ u[7] \in {"/", "?", "#"}

Formatted == fmt # Pending
\* opts is a sequence whose last element is the separator
EndsWithSep(o) == o.t = "list" /\ Len(o.v) > 0 /\ o.v[Len(o.v)] = SEP

\* C8: for every sequence O ending in the separator `--`, _format_opts(O)
\* equals _format_opts(O with that final element removed).
C8_SeparatorLaw ==
    (EndsWithSep(opts) /\ Formatted /\ fmt_short # Pending) => fmt = fmt_short

\* C9: for every sequence holding at least one non-string element,
\* _format_opts returns the string form of every element.
C9_Stringified ==
    (opts.t = "list" /\ (\E k \in 1..Len(opts.v) : ~IsStr(opts.v[k])) /\ Formatted)
        => fmt = Ok(PyList(StrEach(opts.v)))

\* C10: whenever _format_opts succeeds with an output Y that has no trailing
\* separator, _format_opts(Y) succeeds and equals Y.
C10_Idempotent ==
    (Formatted /\ fmt.ok /\ ~EndsWithSep(fmt.v) /\ fmt_again # Pending)
        => fmt_again = Ok(fmt.v)

\* ------------------------------------------- properties of status parsing
Parsed == status_ret # Pending
Segments == SplitOn(status_output, NUL)
EntryOf(code, path) == code \o <<" ">> \o path
StateCodes == { <<"M">>, <<"A">>, <<"D">>, <<"?", "?">>, <<"M", "M">> }
StatePaths == { <<"f">>, <<"g">>, <<"b">>, <<"f", "o", "o", ".", "p", "y">>, <<"b", "a", "r", ".", "t", "x", "t">> }
KeyOf(code) ==
    CASE code = <<"M">> -> <<"m", "o", "d", "i", "f", "i", "e", "d">>
      [] code = <<"A">> -> <<"n", "e", "w">>
      [] code = <<"D">> -> <<"d", "e", "l", "e", "t", "e", "d">>
      [] code = <<"?", "?">> -> <<"u", "n", "t", "r", "a", "c", "k", "e", "d">>
      [] OTHER -> code
Reported(code, path) ==
    /\ status_ret.ok
    /\ KeyOf(code) \in DOMAIN status_ret.v
    /\ \E i \in DOMAIN status_ret.v[KeyOf(code)] : status_ret.v[KeyOf(code)][i] = path
SpecScenario == <<"M">> \o <<NUL>> \o <<"f", "o", "o", ".", "p", "y">> \o <<NUL>> \o <<"?", "?">> \o <<NUL>> \o <<"b", "a", "r", ".", "t", "x", "t">> \o <<NUL>>
EntryScenario == <<"M", " ", "f", "o", "o", ".", "p", "y">> \o <<NUL>> \o <<"?", "?", " ", "b", "a", "r", ".", "t", "x", "t">> \o <<NUL>>
ScenarioMap == (<<"m", "o", "d", "i", "f", "i", "e", "d">> :> << <<"f", "o", "o", ".", "p", "y">> >>) @@ (<<"u", "n", "t", "r", "a", "c", "k", "e", "d">> :> << <<"b", "a", "r", ".", "t", "x", "t">> >>)

KnownKeys == { <<"m", "o", "d", "i", "f", "i", "e", "d">>, <<"n", "e", "w">>, <<"d", "e", "l", "e", "t", "e", "d">>, <<"u", "n", "t", "r", "a", "c", "k", "e", "d">> }
RECURSIVE PathsUnder(_, _)
\* the paths of the segments that split into a code with the key and a path
PathsUnder(key, segs) ==
    IF segs = <<>> THEN <<>>
    ELSE (IF Len(SplitFirst(Head(segs))) = 2 /\ KeyOf(SplitFirst(Head(segs))[1]) = key
          THEN <<SplitFirst(Head(segs))[2]>> ELSE <<>>) \o PathsUnder(key, Tail(segs))

\* C14: every status output parses without raising; every key of the map is
\* modified, new, deleted or untracked, or a state code of at most two
\* characters; each key's list holds exactly the paths of the segments that
\* carry its code, in input order
C14_StatusMapShape ==
    Parsed =>
        /\ status_ret.ok
        /\ LET segs == Segments IN
               \A k \in DOMAIN status_ret.v :
                   /\ k \in KnownKeys \/ Len(k) <= 2
                   /\ status_ret.v[k] = PathsUnder(k, segs)

\* ----------------------------------------------- properties of ls_remote
\* the hashes of a listing, one line each
HashesOf(listing) ==
    CASE listing = <<"a", "\t", "r">> -> <<"a">>
      [] listing = <<"a", "\t", "r", "\n", "b", "\t", "q">> -> <<"a", "\n", "b">>
      [] OTHER -> <<>>

\* C23: ls_remote for a URL with cwd not passed does not fail path validation
\* and executes `git ls-remote` for that URL and ref
C23_LsRemoteWithoutCwd ==
    (call.fn = "ls_remote" /\ call.cwd = None /\ call.https_user = None /\ Ended) =>
        /\ ~InvalidArgumentRaised
        /\ Handed
        /\ ArgumentVector = <<GIT, Lit(<<"l", "s", "-", "r", "e", "m", "o", "t", "e">>), call.remote, call.ref>>

\* C29: for a successful listing of k non-empty lines ls_remote returns k
\* lines, the i-th being the first word (the hash) of the i-th listing line
C29_LsRemoteHashes ==
    (call.fn = "ls_remote" /\ Ended /\ Handed /\ ExecutionsSucceeded) =>
        /\ outcome.kind = "return"
        /\ outcome.v = PyStr(HashesOf(LastExecution.result.stdout))

\* --------------------------------------------- properties of worktree_rm
\* C24: worktree_path is removed only by a worktree_rm call for which the
\* path exists and is_worktree has just returned true; a call that removes
\* nothing ends with an error, and nothing else is ever removed
C24_RemovalGuarded ==
    /\ []((call.fn = "worktree_rm" /\ Ended) =>
            IF fs_removed = {} THEN outcome.kind = "raise"
            ELSE outcome.kind = "return" /\ outcome.v = PyBool(TRUE))
    /\ [][fs_removed' # fs_removed =>
            /\ At("worktree_rm", "l2332")
            /\ call.fn = "worktree_rm" /\ call.exists
            /\ ret = PyBool(TRUE)
            /\ fs_removed' = {call.worktree_path.v}]_vars

C24_Witness ==
    /\ call.fn = "worktree_rm" /\ call.exists /\ call.worktree_path = AbsPath
    /\ outcome.kind = "return" /\ outcome.v = PyBool(TRUE)
    /\ fs_removed = {AbsPath.v}
    /\ Len(executions) = 1 /\ ExecutionsSucceeded

\* ---------------------------------------- properties of the execution user
\* C25: every process execution made during a call of a public operation
\* that takes a user, the executions of its helper operations included, is
\* run as that user
C25_RunAsUser ==
    (PublicCall /\ "user" \in DOMAIN call) =>
        \A k \in 1..Len(executions) : executions[k].runas = call.user

\* ----------------------------------------------- properties of remote_set
\* the listing of the call's remotes succeeded and names the remote
RemotePresent ==
    /\ executions[1].done /\ ~executions[1].raised
    /\ executions[1].result.retcode = 0
    /\ executions[1].result.stdout \in { <<"o", " ", "u", " ", "(", "f", "e", "t", "c", "h", ")", "\n", "o", " ", "v", " ", "(", "p", "u", "s", "h", ")">>, <<"o", " ", "u", " ", "(", "x", ")", "\n", "o", " ", "u", " ", "(", "f", "e", "t", "c", "h", ")">> }
\* execution k is the `git remote <verb>` of the call
RemoteVerb(k, verb) ==
    Len(executions[k].command) >= 3 /\ executions[k].command[3] = Lit(verb)

\* C28: remote_set executes `git remote rm` if and only if the remote is in
\* the listing, always right before `git remote add`, and `git remote
\* set-url --push` only after the add succeeded and only with a push_url
C28_RemoveThenAdd ==
    (call.fn = "remote_set" /\ call.remote = Lit(<<"o">>)) =>
        \A k \in 2..Len(executions) :
            /\ RemoteVerb(k, <<"a", "d", "d">>) => (RemotePresent <=> RemoteVerb(k - 1, <<"r", "m">>))
            /\ RemoteVerb(k, <<"r", "m">>) => RemotePresent /\ k = 2
            /\ RemoteVerb(k, <<"s", "e", "t", "-", "u", "r", "l">>) =>
                   /\ RemoteVerb(k - 1, <<"a", "d", "d">>)
                   /\ executions[k - 1].done /\ ~executions[k - 1].raised
                   /\ executions[k - 1].result.retcode = 0
                   /\ Truthy(call.push_url)

\* ------------------------------- properties of the single-attempt message
\* the argument vector joined with blanks into one command string
JoinedCommand(command) ==
    Join(<<" ">>, [k \in 1..Len(command) |-> command[k].v])

\* C26: without an Identity Set, a nonzero exit code raises ExecutionFailed
\* with the message `Command '<joined argument vector>' failed`, followed
\* by `: <standard error>` if and only if standard error is non-empty
C26_SingleAttemptMessage ==
    (RunnerCall /\ call.identity = None /\ Ended /\ Len(executions) = 1
       /\ ~LastExecution.raised /\ LastExecution.result.retcode # 0) =>
        /\ ExecutionFailed
        /\ outcome.exc.msg =
              <<"C", "o", "m", "m", "a", "n", "d", " ", "'">> \o JoinedCommand(LastExecution.command) \o <<"'", " ", "f", "a", "i", "l", "e", "d">>
              \o (IF LastExecution.result.stderr # <<>>
                  THEN <<":", " ">> \o LastExecution.result.stderr ELSE <<>>)

\* ---------------------------------------------- properties of symbolic_ref
\* opts, split into arguments, holds -d or --delete
DeleteInOpts ==
    LET o == _format_opts(call.opts)
    IN o.ok /\ (InList(Lit(<<"-", "d">>), o.v.v) \/ InList(Lit(<<"-", "-", "d", "e", "l", "e", "t", "e">>), o.v.v))

\* C30: symbolic_ref with a value and neither -d nor --delete hands the
\* runner a vector ending with the ref followed by the value as one
\* argument; with a value and -d or --delete it fails with InvalidArgument
C30_SymbolicRefSet ==
    (call.fn = "symbolic_ref" /\ call.cwd = AbsPath /\ Truthy(call.value)) =>
        IF DeleteInOpts
        THEN executions = <<>> /\ (Ended => InvalidArgumentRaised)
        ELSE \A k \in 1..Len(executions) :
                LET c == executions[k].command
                IN /\ Len(c) >= 2
                   /\ c[Len(c) - 1] = call.ref
                   /\ c[Len(c)] = call.value

====
